---------------------------- MODULE Spec2Model ----------------------------
(***************************************************************************)
(* A model of the pathlib archive packer/unpacker of coghost/toolbox:      *)
(* ZipDir, TarGzDir, Unzip and Untar (src/pathlib/compress.go) over the    *)
(* path handle FsPath (src/pathlib/path.go, path_manipulation.go) and a    *)
(* filesystem.                                                             *)
(*                                                                         *)
(* Strings are sequences of one-character strings, so that the string      *)
(* operations of the code (HasPrefix, TrimSuffix, filepath.Clean,          *)
(* os.ExpandEnv) are computed character by character as the code does.     *)
(***************************************************************************)
EXTENDS Integers, Sequences, FiniteSets, TLC

\* the element of a set of one element: The({e(x) : x \in {v}}) is e(v)
\* with v computed once
The(S) == CHOOSE x \in S : TRUE

(***************************************************************************)
(* Strings                                                                 *)
(***************************************************************************)

\* strings.HasPrefix
HasPrefix(s, prefix) ==
    /\ Len(prefix) <= Len(s)
    /\ SubSeq(s, 1, Len(prefix)) = prefix

\* strings.HasSuffix
HasSuffix(s, suffix) ==
    /\ Len(suffix) <= Len(s)
    /\ SubSeq(s, Len(s) - Len(suffix) + 1, Len(s)) = suffix

\* strings.TrimSuffix
TrimSuffix(s, suffix) ==
    IF HasSuffix(s, suffix) THEN SubSeq(s, 1, Len(s) - Len(suffix)) ELSE s

\* the position of the last "/" of s, 0 when it has none
RECURSIVE LastSlash(_, _)
LastSlash(s, i) ==
    IF i = 0 THEN 0
    ELSE IF s[i] = "/" THEN i
    ELSE LastSlash(s, i - 1)

\* strings.Split(s, "/"): the segments between the separators
RECURSIVE SplitSlash(_)
SplitSlash(s) ==
    LET i == LastSlash(s, Len(s)) IN
    IF i = 0 THEN <<s>>
    ELSE Append(SplitSlash(SubSeq(s, 1, i - 1)), SubSeq(s, i + 1, Len(s)))

\* strings.Join(segs, "/")
RECURSIVE JoinSlash(_)
JoinSlash(segs) ==
    IF Len(segs) = 0 THEN <<>>
    ELSE IF Len(segs) = 1 THEN segs[1]
    ELSE JoinSlash(SubSeq(segs, 1, Len(segs) - 1)) \o <<"/">> \o segs[Len(segs)]

\* filepath.IsAbs (Unix)
IsAbs(s) == Len(s) > 0 /\ s[1] = "/"

\* The lexical processing of filepath.Clean: segs are the segments still to
\* read, out the segments kept so far.
RECURSIVE CleanSegs(_, _, _)
CleanSegs(segs, out, rooted) ==
    IF Len(segs) = 0 THEN out
    ELSE LET h == Head(segs)
             t == Tail(segs)
         IN  IF h = <<>> \/ h = <<".">> THEN CleanSegs(t, out, rooted)
             ELSE IF h = <<".", ".">>
                  THEN IF Len(out) > 0 /\ out[Len(out)] # <<".", ".">>
                       THEN CleanSegs(t, SubSeq(out, 1, Len(out) - 1), rooted)
                       ELSE IF rooted THEN CleanSegs(t, out, rooted)
                       ELSE CleanSegs(t, Append(out, h), rooted)
             ELSE CleanSegs(t, Append(out, h), rooted)

\* filepath.Clean (Unix)
Clean(s) ==
    IF s = <<>> THEN <<".">>
    ELSE LET rooted == IsAbs(s)
             body == JoinSlash(CleanSegs(SplitSlash(s), <<>>, rooted))
         IN  IF rooted THEN <<"/">> \o body
             ELSE IF body = <<>> THEN <<".">>
             ELSE body

\* filepath.Join: the non-empty elements joined by "/" and cleaned
JoinStr(elems) ==
    LET keep == SelectSeq(elems, LAMBDA e : e # <<>>) IN
    IF Len(keep) = 0 THEN <<>> ELSE Clean(JoinSlash(keep))

\* s without its trailing slashes
RECURSIVE StripTrailingSlashes(_)
StripTrailingSlashes(s) ==
    IF Len(s) > 0 /\ s[Len(s)] = "/"
    THEN StripTrailingSlashes(SubSeq(s, 1, Len(s) - 1))
    ELSE s

\* filepath.Base
Base(s) ==
    IF s = <<>> THEN <<".">>
    ELSE LET t == StripTrailingSlashes(s)
             i == LastSlash(t, Len(t))
             b == SubSeq(t, i + 1, Len(t))
         IN  IF b = <<>> THEN <<"/">> ELSE b

\* filepath.Dir
Dir(s) == Clean(SubSeq(s, 1, LastSlash(s, Len(s))))

\* filepath.Rel(base, targ) for cleaned absolute paths with targ at or below
\* base, the only case Walk produces
Rel(base, targ) ==
    IF targ = base THEN <<".">>
    ELSE IF base = <<"/">> THEN SubSeq(targ, 2, Len(targ))
    ELSE SubSeq(targ, Len(base) + 2, Len(targ))

(***************************************************************************)
(* The process environment                                                 *)
(***************************************************************************)

\* the working directory of the process (os.Getwd): "/w"
Cwd == <<"/", "w">>

\* the home directory of the current user (os.UserHomeDir): "/h"
HomeDir == <<"/", "h">>

\* the value of environment variable name (os.Getenv): the variables of
\* the model's process are unset, so every lookup yields the empty string
Getenv(name) == <<>>

\* the stand-in for an escaped dollar sign ("\u0001")
SOH == "u0001"

Letters ==
    {"a", "b", "c", "d", "e", "f", "g", "h", "i", "j", "k", "l", "m", "n", "o",
     "p", "q", "r", "s", "t", "u", "v", "w", "x", "y", "z", "X", "Y", "_"}

Digits == {"0", "1", "2", "3", "4", "5", "6", "7", "8", "9"}

\* os.isShellSpecialVar
isShellSpecialVar(c) == c \in ({"*", "#", "$", "@", "!", "?", "-"} \cup Digits)

\* os.isAlphaNum
isAlphaNum(c) == c \in (Letters \cup Digits)

\* the length of the longest alphanumeric prefix of s
RECURSIVE AlnumRun(_)
AlnumRun(s) ==
    IF Len(s) > 0 /\ isAlphaNum(s[1]) THEN 1 + AlnumRun(Tail(s)) ELSE 0

\* the position of the first "}" of s at or after i, 0 when there is none
RECURSIVE ClosingBrace(_, _)
ClosingBrace(s, i) ==
    IF i > Len(s) THEN 0
    ELSE IF s[i] = "}" THEN i
    ELSE ClosingBrace(s, i + 1)

\* os.getShellName: the variable name at the start of s (the text after a
\* "$") and the number of characters it takes
getShellName(s) ==
    IF s[1] = "{"
    THEN IF Len(s) > 2 /\ isShellSpecialVar(s[2]) /\ s[3] = "}"
         THEN [name |-> <<s[2]>>, w |-> 3]
         ELSE LET i == ClosingBrace(s, 2) IN
              IF i = 0 THEN [name |-> <<>>, w |-> 1]
              ELSE IF i = 2 THEN [name |-> <<>>, w |-> 2]
              ELSE [name |-> SubSeq(s, 2, i - 1), w |-> i]
    ELSE IF isShellSpecialVar(s[1]) THEN [name |-> <<s[1]>>, w |-> 1]
    ELSE LET n == AlnumRun(s) IN [name |-> SubSeq(s, 1, n), w |-> n]

\* os.ExpandEnv: every $name and ${name} of s replaced by its value
RECURSIVE ExpandEnv(_)
ExpandEnv(s) ==
    IF s = <<>> THEN <<>>
    ELSE IF s[1] = "$" /\ Len(s) > 1
    THEN LET sn == getShellName(Tail(s))
             rest == ExpandEnv(SubSeq(s, sn.w + 2, Len(s)))
         IN  IF sn.name = <<>> /\ sn.w > 0 THEN rest
             ELSE IF sn.name = <<>> THEN <<"$">> \o rest
             ELSE Getenv(sn.name) \o rest
    ELSE <<s[1]>> \o ExpandEnv(Tail(s))

\* strings.ReplaceAll(s, "\\$", "\u0001")
RECURSIVE ProtectDollar(_)
ProtectDollar(s) ==
    IF Len(s) < 2 THEN s
    ELSE IF s[1] = "\\" /\ s[2] = "$"
    THEN <<SOH>> \o ProtectDollar(SubSeq(s, 3, Len(s)))
    ELSE <<s[1]>> \o ProtectDollar(Tail(s))

\* strings.ReplaceAll(s, "\u0001", "$")
RestoreDollar(s) == [i \in 1..Len(s) |-> IF s[i] = SOH THEN "$" ELSE s[i]]

\* ExpandUser: a leading "~" or "~/" replaced by the home directory; the
\* lookup of any other user fails in the model's process and leaves the path
ExpandUser(path) ==
    IF ~HasPrefix(path, <<"~">>) THEN path
    ELSE IF path = <<"~">> THEN HomeDir
    ELSE IF HasPrefix(path, <<"~", "/">>)
    THEN JoinStr(<<HomeDir, SubSeq(path, 3, Len(path))>>)
    ELSE path

\* Expand: the home directory, then the environment variables
Expand(path) ==
    IF path = <<>> THEN path
    ELSE RestoreDollar(ExpandEnv(ProtectDollar(ExpandUser(path))))

\* filepath.Abs without the cleaning of its result
AbsUncleaned(path) == IF IsAbs(path) THEN path ELSE Cwd \o <<"/">> \o path

\* filepath.Abs
Abs(path) == IF IsAbs(path) THEN Clean(path) ELSE JoinStr(<<Cwd, path>>)

\* ResolveAbsPath
ResolveAbsPath(filePath) == Abs(Expand(filePath))

(***************************************************************************)
(* Path handles                                                            *)
(***************************************************************************)

\* PathE / Path: the handle of a raw path string.  Name is the base name of
\* the raw string, absPath the expanded absolute path.
Path(filePath) ==
    [absPath |-> ResolveAbsPath(filePath),
     Name    |-> Base(filePath),
     RawPath |-> filePath]

\* FsPath.Join
Join(p, others) ==
    IF Len(others) > 0 /\ IsAbs(others[1])
    THEN Path(JoinStr(others))
    ELSE Path(JoinStr(<<p.absPath>> \o others))

\* FsPath.Parent
Parent(p) == IF p.absPath = <<"/">> THEN p ELSE Path(Dir(p.absPath))

(***************************************************************************)
(* The filesystem                                                          *)
(*                                                                         *)
(* A filesystem value is a record [files, dirs]: files maps the absolute   *)
(* path of every regular file to its content, dirs is the set of the       *)
(* absolute paths of the directories.  A content is a record               *)
(* [kind, data, entries, closed]: kind "bytes" with the bytes in data, or  *)
(* kind "zip" / "targz" with the archive's entries in order; closed tells  *)
(* whether the archive writers were closed, so that the zip central        *)
(* directory or the tar and gzip trailers are in the file.                 *)
(***************************************************************************)

Bytes(data) == [kind |-> "bytes", data |-> data, entries |-> <<>>, closed |-> TRUE]

Archive(kind, entries, closed) ==
    [kind |-> kind, data |-> <<>>, entries |-> entries, closed |-> closed]

\* the number of bytes of a content; an archive file is taken to hold one
\* byte per end record and one per entry
Size(c) == IF c.kind = "bytes" THEN Len(c.data) ELSE 1 + Len(c.entries)

\* n filler bytes
Filler(n) == Bytes([i \in 1..n |-> 0])

\* the first n bytes of a content
Take(c, n) ==
    IF n >= Size(c) THEN c
    ELSE IF n <= 0 THEN Bytes(<<>>)
    ELSE IF c.kind = "bytes" THEN Bytes(SubSeq(c.data, 1, n))
    ELSE Filler(n)

\* a file that held old after new was written at its start without
\* truncation: the bytes of old past the end of new remain
Overlay(new, old) ==
    IF Size(new) = 0 THEN old
    ELSE IF Size(old) <= Size(new) THEN new
    ELSE IF new.kind = "bytes" /\ old.kind = "bytes"
    THEN Bytes(new.data \o SubSeq(old.data, Len(new.data) + 1, Len(old.data)))
    ELSE IF new.kind = "bytes"
    THEN Bytes(new.data \o Filler(Size(old) - Len(new.data)).data)
    ELSE Filler(Size(old))

\* os.Stat / os.Lstat: "dir", "file" or "none"
Stat(fs, path) ==
    IF path \in fs.dirs THEN "dir"
    ELSE IF path \in DOMAIN fs.files THEN "file"
    ELSE "none"

\* path and its ancestors up to the root
RECURSIVE Ancestors(_)
Ancestors(path) ==
    IF path = <<"/">> THEN {path} ELSE {path} \cup Ancestors(Dir(path))

\* os.MkdirAll: ok is FALSE, and nothing created, when path or one of its
\* ancestors is a regular file
OsMkdirAll(fs, path) ==
    IF \E a \in Ancestors(path) : a \in DOMAIN fs.files
    THEN [ok |-> FALSE, fs |-> fs]
    ELSE [ok |-> TRUE, fs |-> [fs EXCEPT !.dirs = @ \cup Ancestors(path)]]

\* whether a file can be opened for writing at path (with O_CREATE): its
\* parent is a directory and path itself is not one
CanCreate(fs, path) == Dir(path) \in fs.dirs /\ path \notin fs.dirs

\* f with key k set to v, k added to the domain when new
Put(f, k, v) == [x \in DOMAIN f \cup {k} |-> IF x = k THEN v ELSE f[x]]

\* the file at path holds content c
WriteFile(fs, path, c) == [fs EXCEPT !.files = Put(@, path, c)]

\* Create without O_TRUNC: the content of an existing file is kept
OsCreateKeeping(fs, path) ==
    IF CanCreate(fs, path)
    THEN [ok |-> TRUE,
          fs |-> IF path \in DOMAIN fs.files THEN fs
                 ELSE WriteFile(fs, path, Bytes(<<>>))]
    ELSE [ok |-> FALSE, fs |-> fs]

\* afero.Fs.Create / OpenFile(O_CREATE|O_TRUNC): the file exists and is empty
OsCreate(fs, path) ==
    IF CanCreate(fs, path)
    THEN [ok |-> TRUE, fs |-> WriteFile(fs, path, Bytes(<<>>))]
    ELSE [ok |-> FALSE, fs |-> fs]

\* OpenFile(O_CREATE|O_RDWR): the file exists, its content is kept
OsOpenCreate(fs, path) ==
    IF CanCreate(fs, path)
    THEN [ok |-> TRUE,
          fs |-> IF path \in DOMAIN fs.files THEN fs
                 ELSE WriteFile(fs, path, Bytes(<<>>))]
    ELSE [ok |-> FALSE, fs |-> fs]

\* FsPath.MkdirAll(perm)
MkdirAll(fs, p) == OsMkdirAll(fs, p.absPath)

\* FsPath.MkParentDir
MkParentDir(fs, p) == OsMkdirAll(fs, Dir(p.absPath))

\* FsPath.IsDir: a raw path ending in "/" is taken to be a directory
\* without looking at the filesystem
IsDir(fs, p) ==
    IF HasSuffix(p.RawPath, <<"/">>) THEN TRUE
    ELSE Stat(fs, p.absPath) = "dir"

(***************************************************************************)
(* Walk                                                                    *)
(***************************************************************************)

\* the characters in byte order
CharOrder ==
    <<"$", ".", "/", "0", "1", "2", "3", "4", "5", "6", "7", "8", "9",
      "X", "Y", "\\", "_",
      "a", "b", "c", "d", "e", "f", "g", "h", "i", "j", "k", "l", "m", "n", "o",
      "p", "q", "r", "s", "t", "u", "v", "w", "x", "y", "z", "{", "}", "~">>

CharRank(c) == CHOOSE i \in 1..Len(CharOrder) : CharOrder[i] = c

\* s sorts before t as a string
RECURSIVE StrLess(_, _)
StrLess(s, t) ==
    IF t = <<>> THEN FALSE
    ELSE IF s = <<>> THEN TRUE
    ELSE IF s[1] = t[1] THEN StrLess(Tail(s), Tail(t))
    ELSE CharRank(s[1]) < CharRank(t[1])

\* the strings of a set in lexical order (readDirNames sorts the names)
RECURSIVE Sorted(_)
Sorted(S) ==
    IF S = {} THEN <<>>
    ELSE LET m == CHOOSE x \in S : \A y \in S \ {x} : StrLess(x, y)
         IN  <<m>> \o Sorted(S \ {m})

\* the paths directly inside directory dir
Children(fs, dir) ==
    {q \in (DOMAIN fs.files \cup fs.dirs) : q # dir /\ Dir(q) = dir}

\* the concatenation of the sequences of a sequence
RECURSIVE Flatten(_)
Flatten(ss) == IF ss = <<>> THEN <<>> ELSE Head(ss) \o Flatten(Tail(ss))

\* afero.Walk below an existing path: the paths visited, in order: the path
\* itself, then, for a directory, the walk of each child in lexical order
RECURSIVE WalkPaths(_, _)
WalkPaths(fs, path) ==
    IF path \in fs.dirs
    THEN LET kids == Sorted(Children(fs, path))
         IN  <<path>> \o Flatten([i \in 1..Len(kids) |-> WalkPaths(fs, kids[i])])
    ELSE <<path>>

(***************************************************************************)
(* Compression                                                             *)
(*                                                                         *)
(* An archive entry is a record [name, typ, size, data]: typ is "reg",     *)
(* "dir" or "sym", size the size the entry's header declares and data the  *)
(* content stored for it.  A fault is a record [kind, at, n] naming the    *)
(* I/O call of the operation that the environment makes fail: at is the    *)
(* number of the file or entry in flight and n the number of bytes         *)
(* transferred before the failure; kind "none" is a run without failure.   *)
(***************************************************************************)

ZipExt == <<".", "z", "i", "p">>

TarGzExt == <<".", "t", "a", "r", ".", "g", "z">>

\* the ten bytes gzip.Writer puts in the file on its first Write
GzipHeader == <<31, 139, 8, 0, 0, 0, 0, 0, 0, 255>>

\* whether the fault is one of this kind at file or entry number at
Hit(fault, kind, at) == fault.kind = kind /\ fault.at = at

\* A compression and an extraction keep, in the field open of their state,
\* the handles that are open: "archiveFile" and "archiveWriter" for the
\* archive a compression writes, "sourceFile" for the file it reads,
\* "archiveReader" for the archive an extraction reads, "entryReader" for
\* the zip entry it reads and "destFile" for the file it writes.

\* a function returning without running its deferred Close calls
Leaked(state, hs) == state

\* the deferred Close calls of a function, run when it returns: the handles
\* hs are closed
Closed(state, hs) == [state EXCEPT !.open = @ \ hs]

\* Create for the archive at compressedPath
createArchive(fs, fault, compressedPath) ==
    The({IF fault.kind = "create" \/ ~made.ok
         THEN [err |-> "io", fs |-> fs, path |-> compressedPath]
         ELSE [err |-> "nil", fs |-> made.fs, path |-> compressedPath] :
            made \in {OsCreate(fs, compressedPath.absPath)}})

\* prepareCompression: the directory check, the archive's name and Create
prepareCompression(fs, p, fileName, extension, fault) ==
    IF ~IsDir(fs, p)
    THEN [err |-> "ErrNotDirectory", fs |-> fs, path |-> p]
    ELSE The({createArchive(fs, fault, compressedPath) :
                 compressedPath \in
                     {Join(Parent(p), <<IF HasSuffix(fileName, extension)
                                        THEN fileName
                                        ELSE fileName \o extension>>)}})

\* The state of a compression is a record cs: the filesystem, the
\* archive's path, what the archive file held when it was opened, the
\* entries written, the number of files visited, the count of files,
\* whether the last tar entry is short of its declared size, and the error.
\* While the walk runs the archive file being written holds nothing on
\* disk for zip, whose writer buffers until Close, and the gzip header for
\* tar.gz as soon as the first tar header went through the gzip writer.

\* io.Copy(writer, file) for the file at openPath: the bytes that reach the
\* archive and the error.  Reading a directory fails, and the tar writer
\* takes no more than the size its header declared.
compressCopy(disk, format, info, fault, k, openPath) ==
    IF Stat(disk, openPath) = "dir" THEN [c |-> Bytes(<<>>), err |-> "io"]
    ELSE IF Hit(fault, "copy", k)
    THEN [c |-> Take(disk.files[openPath], fault.n), err |-> "io"]
    ELSE IF format = "targz" /\ Size(disk.files[openPath]) > Size(info)
    THEN [c |-> Take(disk.files[openPath], Size(info)), err |-> "io"]
    ELSE [c |-> disk.files[openPath], err |-> "nil"]

\* the state after the entry's header and the bytes copied went into the
\* archive: a tar header declares the size of info, a zip entry the bytes
\* it was given
compressWrote(cs, format, info, relPath, disk, copied) ==
    [cs EXCEPT !.fs = disk,
               !.visited = @ + 1,
               !.entries = Append(@, [name |-> relPath, typ |-> "reg",
                                      size |-> IF format = "targz" THEN Size(info)
                                               ELSE Size(copied.c),
                                      data |-> copied.c]),
               !.pending = format = "targz" /\ Size(copied.c) < Size(info),
               !.count = IF copied.err = "nil" THEN @ + 1 ELSE @,
               !.err = copied.err]

\* createWriter and io.Copy once the file is open: the first tar header
\* takes the gzip header to the archive file
compressOpened(cs, format, info, fault, relPath, openPath, disk) ==
    The({compressWrote(cs, format, info, relPath, disk, copied) :
            copied \in {compressCopy(disk, format, info, fault, cs.visited + 1,
                                     openPath)}})

\* Open and createWriter for the file at openPath: Open fails for a path
\* that does not exist, and the tar writer refuses a header while the
\* previous entry is short
compressFile(cs, format, info, fault, relPath, openPath) ==
    IF \/ Stat(cs.fs, openPath) = "none"
       \/ Hit(fault, "open", cs.visited + 1)
    THEN [cs EXCEPT !.err = "io", !.visited = @ + 1]
    ELSE IF \/ Hit(fault, "writer", cs.visited + 1)
            \/ (format = "targz" /\ cs.pending)
    THEN [cs EXCEPT !.err = "io", !.visited = @ + 1,
                    !.open = @ \cup {"sourceFile"}]
    ELSE The({compressOpened([cs EXCEPT !.open = @ \cup {"sourceFile"}],
                             format, info, fault, relPath, openPath, disk) :
                 disk \in {IF format = "targz" /\ cs.entries = <<>>
                           THEN WriteFile(cs.fs, cs.arch, Bytes(GzipHeader))
                           ELSE cs.fs}})

\* the path p.Join(relPath) that the walk function opens, and the deferred
\* Close of the file opened
compressOpen(cs, p, format, info, fault, relPath) ==
    The({Closed(compressFile(cs, format, info, fault, relPath, openPath),
                {"sourceFile"}) :
            openPath \in {Join(p, <<relPath>>).absPath}})

\* the walk function counting the directories it visits too
compressVisitCountingDirs(cs, p, format, q, fault) ==
    IF Stat(cs.fs, q) = "dir" THEN [cs EXCEPT !.count = @ + 1]
    ELSE The({compressOpen(cs, p, format, cs.fs.files[q], fault, relPath) :
                 relPath \in {Rel(p.absPath, q)}})

\* the walk function writing an entry for each directory it visits
compressVisitWritingDirs(cs, p, format, q, fault) ==
    IF Stat(cs.fs, q) = "dir"
    THEN [cs EXCEPT !.entries = Append(@, [name |-> Rel(p.absPath, q), typ |-> "dir",
                                           size |-> 0, data |-> Bytes(<<>>)])]
    ELSE The({compressOpen(cs, p, format, cs.fs.files[q], fault, relPath) :
                 relPath \in {Rel(p.absPath, q)}})

\* One call of the walk function of compressDirectoryToWriter, for the
\* visited path q
compressVisit(cs, p, format, q, fault) ==
    IF Stat(cs.fs, q) = "dir" THEN cs
    ELSE The({compressOpen(cs, p, format, cs.fs.files[q], fault, relPath) :
                 relPath \in {Rel(p.absPath, q)}})

\* the walk: the visits in order, stopped by the first error
RECURSIVE compressWalk(_, _, _, _, _)
compressWalk(cs, p, format, paths, fault) ==
    IF paths = <<>> \/ cs.err # "nil" THEN cs
    ELSE The({compressWalk(visited, p, format, Tail(paths), fault) :
                 visited \in {compressVisit(cs, p, format, Head(paths), fault)}})

\* compressDirectoryToWriter: Walk calls the walk function with a nil
\* FileInfo when the root cannot be read, and FsPath.Walk dereferences it
compressDirectoryToWriter(cs, p, format, fault) ==
    IF Stat(cs.fs, p.absPath) = "none"
    THEN [cs EXCEPT !.err = "panic"]
    ELSE The({compressWalk(cs, p, format, paths, fault) :
                 paths \in {WalkPaths(cs.fs, p.absPath)}})

\* the deferred Close calls: the archive, written from the start of the
\* file over what the file held when it was opened, is the file's final
\* content; the errors of Close are not looked at
closeArchive(cs, format, fault) ==
    LET complete == fault.kind # "close" /\ ~cs.pending
    IN  WriteFile(cs.fs, cs.arch,
                  Overlay(Archive(format, cs.entries, complete), cs.base))

\* the state of a compression when prepareCompression has created the
\* archive and the writers are set up
compressStart(prep) ==
    [fs |-> prep.fs, arch |-> prep.path.absPath,
     base |-> prep.fs.files[prep.path.absPath],
     entries |-> <<>>, visited |-> 0, count |-> 0,
     pending |-> FALSE, err |-> "nil",
     open |-> {"archiveFile", "archiveWriter"}]

\* what ZipDir and TarGzDir return when prepareCompression failed
compressFailed(prep) ==
    [path |-> <<>>, count |-> 0, err |-> prep.err, fs |-> prep.fs, open |-> {}]

\* what ZipDir and TarGzDir return after compressDirectoryToWriter, with
\* their deferred Close calls run
compressReturn(cs, format, fault) ==
    Closed([path  |-> IF cs.err # "nil" THEN <<>> ELSE cs.arch,
            count |-> IF cs.err # "nil" THEN 0 ELSE cs.count,
            err   |-> cs.err,
            fs    |-> closeArchive(cs, format, fault),
            open  |-> cs.open],
           {"archiveFile", "archiveWriter"})

\* ZipDir and TarGzDir: the result [path, count, err] and the filesystem left
CompressDir(fs, p, fileName, format, fault) ==
    LET ext == IF format = "zip" THEN ZipExt ELSE TarGzExt
        run(prep) ==
            IF prep.err # "nil" THEN compressFailed(prep)
            ELSE The({compressReturn(cs, format, fault) :
                         cs \in {compressDirectoryToWriter(compressStart(prep), p,
                                                           format, fault)}})
    IN  The({run(prep) : prep \in {prepareCompression(fs, p, fileName, ext, fault)}})

ZipDir(fs, p, zipFileName, fault) == CompressDir(fs, p, zipFileName, "zip", fault)

TarGzDir(fs, p, tarGzFileName, fault) == CompressDir(fs, p, tarGzFileName, "targz", fault)

(***************************************************************************)
(* Extraction                                                              *)
(*                                                                         *)
(* The state of an extraction is a record [fs, err, log]: the filesystem,  *)
(* the error that ended it ("nil" while it runs) and, for each entry       *)
(* processed, a record of what was done for it: the entry's number, name,  *)
(* type and declared size, the target path, the filesystem calls made in   *)
(* order, the bytes written and the error.                                 *)
(***************************************************************************)

\* the default MaxSize, 1 GiB
maxSize == 1073741824

\* a > b for two uint64 values, each given as the int64 with the same bits
UGt(a, b) == IF (a < 0) = (b < 0) THEN a > b ELSE a < 0

Min(a, b) == IF a < b THEN a ELSE b

\* io.Copy(dst, io.LimitReader(src, limit)) for a source holding content c
\* whose header declares size bytes: the bytes written, and whether the copy
\* failed.  The reader of an entry whose stream does not hold the declared
\* number of bytes fails when it is read to its end.
CopyLimited(c, size, limit, fault, i) ==
    LET n       == IF limit <= 0 THEN 0 ELSE Min(limit, Size(c))
        readErr == limit > Size(c) /\ Size(c) # size
        broken  == fault.kind = "copy" /\ fault.at = i
    IN  IF broken THEN [written |-> Min(fault.n, n), failed |-> TRUE]
        ELSE [written |-> n, failed |-> readErr]

Event(i, e, target, calls, written, err) ==
    [idx |-> i, name |-> e.name, typ |-> e.typ, size |-> e.size,
     target |-> target, calls |-> calls, written |-> written, err |-> err]

\* the extraction state after entry i was handled with this outcome
Done(st, fs, ev) == [st EXCEPT !.fs = fs, !.err = ev.err, !.log = Append(@, ev)]

\* zip.File.FileInfo().IsDir(): the mode bits say so, or the name ends in "/"
ZipIsDir(file) == file.typ = "dir" \/ HasSuffix(file.name, <<"/">>)

\* a directory entry: MkdirAll at its path
entryDir(st, e, fault, i, filePath) ==
    The({IF Hit(fault, "mkdirEntry", i) \/ ~made.ok
         THEN Done(st, st.fs, Event(i, e, filePath.absPath, <<"MkdirAll">>, 0, "io"))
         ELSE Done(st, made.fs, Event(i, e, filePath.absPath, <<"MkdirAll">>, 0, "nil")) :
            made \in {MkdirAll(st.fs, filePath)}})

\* extractZipFile without the comparison of written with the declared size
zipCopyUnchecked(st, file, i, target, fs, cp) ==
    Done(st, WriteFile(fs, target, Take(file.data, cp.written)),
         Event(i, file, target, <<"MkParentDir", "OpenFile", "Copy">>, cp.written,
               IF cp.failed THEN "io" ELSE "nil"))

\* extractZipFile from io.Copy on: the file holds the bytes written
zipCopy(st, file, i, target, fs, cp) ==
    Done(st, WriteFile(fs, target, Take(file.data, cp.written)),
         Event(i, file, target, <<"MkParentDir", "OpenFile", "Copy">>, cp.written,
               IF cp.failed THEN "io"
               ELSE IF cp.written # file.size THEN "ErrIncompleteWrite"
               ELSE "nil"))

\* extractZipFile from OpenFile(O_WRONLY|O_CREATE|O_TRUNC) on
zipCreate(st, file, max, fault, i, target, fs, opened) ==
    IF Hit(fault, "create", i) \/ ~opened.ok
    THEN Done(st, fs, Event(i, file, target, <<"MkParentDir", "OpenFile">>, 0, "io"))
    ELSE The({zipCopy([st EXCEPT !.open = @ \cup {"destFile"}], file, i, target,
                      opened.fs, cp) :
                 cp \in {CopyLimited(file.data, file.size, max, fault, i)}})

\* extractZipFile from MkParentDir on
zipParent(st, file, max, fault, i, target, parent) ==
    IF Hit(fault, "mkdirEntry", i) \/ ~parent.ok
    THEN Done(st, st.fs, Event(i, file, target, <<"MkParentDir">>, 0, "io"))
    ELSE The({zipCreate(st, file, max, fault, i, target, parent.fs, opened) :
                 opened \in {OsCreate(parent.fs, target)}})

\* extractZipFile from the traversal check on, for the joined path
zipEntry(st, file, destDir, max, fault, i, filePath) ==
    IF ~HasPrefix(filePath.absPath, destDir.absPath)
    THEN Done(st, st.fs, Event(i, file, filePath.absPath, <<>>, 0, "ErrIllegalFilePath"))
    ELSE IF ZipIsDir(file) THEN entryDir(st, file, fault, i, filePath)
    ELSE IF UGt(file.size, max)
    THEN Done(st, st.fs, Event(i, file, filePath.absPath, <<>>, 0, "ErrFileTooLarge"))
    ELSE IF Hit(fault, "openEntry", i)
    THEN Done(st, st.fs, Event(i, file, filePath.absPath, <<>>, 0, "io"))
    ELSE The({zipParent([st EXCEPT !.open = @ \cup {"entryReader"}], file, max,
                        fault, i, filePath.absPath, parent) :
                 parent \in {MkParentDir(st.fs, filePath)}})

\* extractZipFile for entry number i of the archive
extractZipFile(st, file, destDir, max, fault, i) ==
    The({Closed(zipEntry(st, file, destDir, max, fault, i, filePath),
                {"entryReader", "destFile"}) :
            filePath \in {Join(destDir, <<file.name>>)}})

\* extractTarFile from io.Copy on: the bytes written replace the start of
\* what the file held
tarCopy(st, target, header, i, fs, cp) ==
    Done(st, WriteFile(fs, target, Overlay(Take(header.data, cp.written),
                                           fs.files[target])),
         Event(i, header, target, <<"MkParentDir", "OpenFile", "Copy">>, cp.written,
               IF cp.failed THEN "io"
               ELSE IF cp.written # header.size THEN "ErrIncompleteWrite"
               ELSE "nil"))

\* extractTarFile from OpenFile(O_CREATE|O_RDWR) on
tarCreate(st, target, header, fault, i, opened) ==
    IF Hit(fault, "create", i) \/ ~opened.ok
    THEN Done(st, st.fs, Event(i, header, target, <<"MkParentDir", "OpenFile">>, 0, "io"))
    ELSE The({tarCopy([st EXCEPT !.open = @ \cup {"destFile"}], target, header, i,
                      opened.fs, cp) :
                 cp \in {CopyLimited(header.data, header.size, header.size, fault, i)}})

\* extractTarFile for entry number i of the archive, after MkParentDir
extractTarFile(st, target, header, max, fault, i) ==
    IF header.size > max
    THEN Done(st, st.fs, Event(i, header, target, <<"MkParentDir">>, 0, "ErrFileTooLarge"))
    ELSE The({Closed(tarCreate(st, target, header, fault, i, opened),
                     {"destFile"}) :
                 opened \in {OsOpenCreate(st.fs, target)}})

\* a regular entry of Untar from MkParentDir on
tarParent(st, header, max, fault, i, target, parent) ==
    IF Hit(fault, "mkdirEntry", i) \/ ~parent.ok
    THEN Done(st, st.fs, Event(i, header, target, <<"MkParentDir">>, 0, "io"))
    ELSE extractTarFile([st EXCEPT !.fs = parent.fs], target, header, max, fault, i)

\* the switch of Untar taking every entry that is not a directory for a
\* regular file
tarEntryAll(st, header, max, fault, i, filePath) ==
    IF header.typ = "dir" THEN entryDir(st, header, fault, i, filePath)
    ELSE The({tarParent(st, header, max, fault, i, filePath.absPath, parent) :
                 parent \in {MkParentDir(st.fs, filePath)}})

\* the switch of Untar on the entry's type, for the joined path: an entry
\* that is neither a directory nor a regular file is skipped
tarEntry(st, header, max, fault, i, filePath) ==
    IF header.typ = "dir" THEN entryDir(st, header, fault, i, filePath)
    ELSE IF header.typ = "reg"
    THEN The({tarParent(st, header, max, fault, i, filePath.absPath, parent) :
                 parent \in {MkParentDir(st.fs, filePath)}})
    ELSE Done(st, st.fs, Event(i, header, filePath.absPath, <<>>, 0, "nil"))

\* the body of the loop of Untar for entry number i
untarEntry(st, header, subDir, max, fault, i) ==
    The({tarEntry(st, header, max, fault, i, filePath) :
            filePath \in {Join(subDir, <<header.name>>)}})

\* the loop going on to the next entry after an error
RECURSIVE extractLoopThrough(_, _, _, _, _, _, _)
extractLoopThrough(st, format, entries, dir, max, fault, i) ==
    IF i > Len(entries) THEN st
    ELSE The({extractLoopThrough(next, format, entries, dir, max, fault, i + 1) :
                 next \in {IF format = "zip"
                           THEN extractZipFile(st, entries[i], dir, max, fault, i)
                           ELSE untarEntry(st, entries[i], dir, max, fault, i)}})

\* the loop over the entries of the archive, from entry number i on: it
\* returns at the first error
RECURSIVE extractLoop(_, _, _, _, _, _, _)
extractLoop(st, format, entries, dir, max, fault, i) ==
    IF i > Len(entries) \/ st.err # "nil" THEN st
    ELSE The({extractLoop(next, format, entries, dir, max, fault, i + 1) :
                 next \in {IF format = "zip"
                           THEN extractZipFile(st, entries[i], dir, max, fault, i)
                           ELSE untarEntry(st, entries[i], dir, max, fault, i)}})

\* the state of an extraction with this filesystem, error and open handles
\* before any entry was handled
extractStart(fs, err, open) == [fs |-> fs, err |-> err, log |-> <<>>, open |-> open]

\* zip.OpenReader and prepareUntarEnvironment: whether the file at p can be
\* opened as an archive of the format; the zip reader needs the central
\* directory that Close writes
archiveOpens(fs, p, format, fault) ==
    /\ fault.kind # "openArchive"
    /\ Stat(fs, p.absPath) = "file"
    /\ fs.files[p.absPath].kind = format
    /\ format = "zip" => fs.files[p.absPath].closed

\* what Unzip and Untar return after the loop, with the deferred Close of
\* the archive run: the tar reader fails at the end of an archive that has
\* no trailer
extractReturn(st, content) ==
    Closed(IF st.err = "nil" /\ ~content.closed THEN [st EXCEPT !.err = "io"]
           ELSE st,
           {"archiveReader"})

\* Unzip and Untar: the error returned, the filesystem left and the log
Extract(fs, p, destDir, max, format, fault) ==
    LET ext == IF format = "zip" THEN ZipExt ELSE TarGzExt
        read(st0, content, subDir) ==
            The({extractReturn(st, content) :
                    st \in {extractLoop(st0, format, content.entries, subDir,
                                        max, fault, 1)}})
        open(made, subDir) ==
            IF fault.kind = "mkdir" \/ ~made.ok
            THEN extractStart(fs, "io", {})
            ELSE IF ~archiveOpens(made.fs, p, format, fault)
            THEN extractStart(made.fs, "io", {})
            ELSE The({read(st, made.fs.files[p.absPath], subDir) :
                         st \in {extractStart(made.fs, "nil", {"archiveReader"})}})
        mkdir(subDir) == The({open(made, subDir) : made \in {MkdirAll(fs, subDir)}})
    IN  The({mkdir(subDir) :
                subDir \in {Join(Path(destDir), <<TrimSuffix(p.Name, ext)>>)}})

Unzip(fs, p, destDir, max, fault) == Extract(fs, p, destDir, max, "zip", fault)

Untar(fs, p, destDir, max, fault) == Extract(fs, p, destDir, max, "targz", fault)

(***************************************************************************)
(* The program: a filesystem and a sequence of calls                       *)
(***************************************************************************)

VARIABLES
    files,   \* the content of every regular file, by absolute path
    dirs,    \* the absolute paths of the directories
    ret,     \* what the last call returned: [op, path, count, err]
    call,    \* the arguments of the last call
    pre,     \* the filesystem or the Sleeper before the last call
    log,     \* what the last extraction did for each entry, in order
    handles, \* the handles the last call left open
    ops,     \* the number of calls made
    tasks,   \* the calls that run concurrently, each with its local state
    handle,  \* the path handle the caller holds
    sleeper  \* the Sleeper the caller holds

vars == <<files, dirs, ret, call, pre, log, handles, ops, tasks, handle, sleeper>>

\* the caller holds no path handle and no Sleeper
NoObjects == handle = <<>> /\ sleeper = <<>>

\* the number of calls of a behaviour
MaxOps == 2

\* the highest number of a file or entry at which an I/O fault is injected
MaxFaultAt == 2

NoFault == [kind |-> "none", at |-> 0, n |-> 0]

Fault(kind, at) == [kind |-> kind, at |-> at, n |-> 0]

\* the faults of a compression: the archive cannot be created, a source
\* file cannot be opened, its header or its content cannot be written, the
\* archive cannot be closed
CompressFaults ==
    {Fault("create", 0), Fault("close", 0)}
    \cup {Fault(k, i) : k \in {"open", "writer", "copy"}, i \in 1..MaxFaultAt}

\* the faults of an extraction: the output directory cannot be made, the
\* archive cannot be opened, and for an entry: its directory cannot be
\* made, it cannot be opened, its file cannot be created, the copy fails
ExtractFaults ==
    {Fault("mkdir", 0), Fault("openArchive", 0)}
    \cup {Fault(k, i) : k \in {"mkdirEntry", "openEntry", "create", "copy"},
                        i \in 1..MaxFaultAt}

\* the source trees: each of the files of /s present or not, and /s/e an
\* empty directory
SrcDir == <<"/", "s">>

FileA == <<"/", "s", "/", "a">>

FileAX == <<"/", "s", "/", "a", "$", "X">>

FileDB == <<"/", "s", "/", "d", "/", "b">>

DirD == <<"/", "s", "/", "d">>

DirE == <<"/", "s", "/", "e">>

Pick(path, choice) == IF choice = "absent" THEN <<>> ELSE path :> Bytes(choice)

Trees ==
    {[files |-> Pick(FileA, a) @@ Pick(FileAX, ax) @@ Pick(FileDB, db),
      dirs  |-> {<<"/">>, SrcDir, DirE}
                \cup (IF db = "absent" THEN {} ELSE {DirD})] :
        a \in {"absent", <<1>>}, ax \in {"absent", <<4>>, <<4, 3>>},
        db \in {"absent", <<5, 6>>}}

\* the entries of the archives that come from elsewhere, found at /m.zip
\* and /m.tar.gz
Reg(name, size, data) == [name |-> name, typ |-> "reg", size |-> size, data |-> Bytes(data)]

Foreign ==
    {<<Reg(<<"f">>, 1, <<7>>), Reg(<<"g">>, 2, <<7, 8>>), Reg(<<"h">>, 1, <<9>>)>>,
     <<Reg(<<"f">>, 1, <<7>>), Reg(<<"f", "/", "g">>, 2, <<7, 8>>)>>,
     <<Reg(<<".", ".", "/", "m", "b", "/", "f">>, 1, <<7>>), Reg(<<"f">>, 1, <<7>>)>>,
     <<Reg(<<"f">>, 1, <<7>>), Reg(<<".", ".", "/", ".", ".", "/", "q">>, 2, <<7, 8>>)>>,
     <<Reg(<<"/", "q">>, 1, <<7>>)>>,
     <<[name |-> <<"d", "/">>, typ |-> "dir", size |-> 0, data |-> Bytes(<<>>)],
       Reg(<<"d", "/", "f">>, 1, <<7>>)>>,
     <<[name |-> <<"l">>, typ |-> "sym", size |-> 0, data |-> Bytes(<<>>)],
       Reg(<<"d", "/", "g">>, 2, <<7, 8>>), Reg(<<"f">>, 1, <<7>>)>>,
     <<Reg(<<"f">>, 2, <<7>>), Reg(<<"g">>, 1, <<7>>)>>,
     <<Reg(<<"f">>, 2, <<7, 8>>), Reg(<<"f">>, 1, <<9>>)>>,
     <<Reg(<<".", ".", "/", ".", ".", "/", "m", ".", "t", "a", "r", ".", "g", "z">>,
           1, <<7>>)>>}

MZip == <<"/", "m", ".", "z", "i", "p">>

MTarGz == <<"/", "m", ".", "t", "a", "r", ".", "g", "z">>

\* the raw paths a source handle is made from: the source directory, a
\* regular file, with and without a trailing slash, and a path that does
\* not exist, with and without one
SourceRaws ==
    {SrcDir, FileA, FileA \o <<"/">>, <<"/", "n">>, <<"/", "n", "/">>}

\* the archive file names given to ZipDir and TarGzDir: a name without the
\* extension, one with a directory in it, and the name of the archive from
\* elsewhere, with the extension
ArchiveNames(extension) ==
    {<<"x">>, <<"s", "/", "x">>, <<"m">> \o extension}

\* the destination directory
DestDir == <<"/", "o">>

\* the MaxSize options
MaxSizes == {maxSize, 1, 0, -1}

\* the calls of ZipDir and of TarGzDir: every source under the name x, the
\* source directory under every name, and under the name x with every fault
CompressCalls(extension) ==
    {[raw |-> raw, name |-> <<"x">>, fault |-> NoFault] : raw \in SourceRaws}
    \cup {[raw |-> SrcDir, name |-> name, fault |-> NoFault] :
              name \in ArchiveNames(extension)}
    \cup {[raw |-> SrcDir, name |-> <<"x">>, fault |-> f] : f \in CompressFaults}

\* the archives of a format that are present
Archives(format) == {q \in DOMAIN files : files[q].kind = format}

\* the calls of Unzip and of Untar: each archive of the format and one that
\* does not exist, and the archive from elsewhere under every MaxSize and
\* with every fault
ExtractCalls(format, foreign) ==
    {[raw |-> raw, max |-> maxSize, fault |-> NoFault] :
        raw \in Archives(format) \cup {<<"/", "n">>}}
    \cup {[raw |-> foreign, max |-> max, fault |-> NoFault] : max \in MaxSizes}
    \cup {[raw |-> foreign, max |-> maxSize, fault |-> f] : f \in ExtractFaults}

\* the first tree and the first archive from elsewhere
Tree0 ==
    [files |-> Pick(FileA, <<1>>) @@ Pick(FileDB, <<5, 6>>),
     dirs  |-> {<<"/">>, SrcDir, DirE, DirD}]

Foreign0 ==
    <<Reg(<<"f">>, 1, <<7>>), Reg(<<"g">>, 2, <<7, 8>>), Reg(<<"h">>, 1, <<9>>)>>

\* the state before the first call, for a tree and an archive from elsewhere
Start(tree, foreign) ==
    /\ files = tree.files @@ (MZip :> Archive("zip", foreign, TRUE))
                          @@ (MTarGz :> Archive("targz", foreign, TRUE))
    /\ dirs = tree.dirs
    /\ ret = [op |-> "none", path |-> <<>>, count |-> 0, err |-> "nil"]
    /\ call = [op |-> "none"]
    /\ pre = [files |-> <<>>, dirs |-> {}]
    /\ log = <<>>
    /\ handles = {}
    /\ ops = 0
    /\ tasks = <<>>
    /\ NoObjects

\* a behaviour starts with any of the trees and the first archive from
\* elsewhere
Init == \E tree \in Trees : Start(tree, Foreign0)

\* or with the first tree and any of the archives from elsewhere
InitForeign == \E foreign \in Foreign : Start(Tree0, foreign)

FS == [files |-> files, dirs |-> dirs]

\* the caller makes its calls one after the other, at most MaxOps of them,
\* and stops at the first one that returns an error
Calling == ops < MaxOps /\ ret.err = "nil"

Compressed(op, c, r) ==
    /\ files' = r.fs.files
    /\ dirs' = r.fs.dirs
    /\ ret' = [op |-> op, path |-> r.path, count |-> r.count, err |-> r.err]
    /\ call' = [op |-> op, raw |-> c.raw, name |-> c.name, fault |-> c.fault]
    /\ pre' = FS
    /\ log' = <<>>
    /\ handles' = r.open
    /\ ops' = ops + 1
    /\ UNCHANGED <<tasks, handle, sleeper>>

Extracted(op, c, r) ==
    /\ files' = r.fs.files
    /\ dirs' = r.fs.dirs
    /\ ret' = [op |-> op, path |-> <<>>, count |-> 0, err |-> r.err]
    /\ call' = [op |-> op, raw |-> c.raw, dest |-> DestDir, max |-> c.max,
                fault |-> c.fault]
    /\ pre' = FS
    /\ log' = r.log
    /\ handles' = r.open
    /\ ops' = ops + 1
    /\ UNCHANGED <<tasks, handle, sleeper>>

DoZipDir ==
    /\ Calling
    /\ \E c \in CompressCalls(ZipExt) :
          \E p \in {Path(c.raw)} :
              \E r \in {ZipDir(FS, p, c.name, c.fault)} : Compressed("ZipDir", c, r)

DoTarGzDir ==
    /\ Calling
    /\ \E c \in CompressCalls(TarGzExt) :
          \E p \in {Path(c.raw)} :
              \E r \in {TarGzDir(FS, p, c.name, c.fault)} : Compressed("TarGzDir", c, r)

DoUnzip ==
    /\ Calling
    /\ \E c \in ExtractCalls("zip", MZip) :
          \E p \in {Path(c.raw)} :
              \E r \in {Unzip(FS, p, DestDir, c.max, c.fault)} : Extracted("Unzip", c, r)

DoUntar ==
    /\ Calling
    /\ \E c \in ExtractCalls("targz", MTarGz) :
          \E p \in {Path(c.raw)} :
              \E r \in {Untar(FS, p, DestDir, c.max, c.fault)} : Extracted("Untar", c, r)

Next == DoZipDir \/ DoTarGzDir \/ DoUnzip \/ DoUntar

Spec == Init /\ [][Next]_vars

SpecForeign == InitForeign /\ [][Next]_vars

(***************************************************************************)
(* Concurrent calls                                                        *)
(*                                                                         *)
(* Two goroutines make one call each on the one filesystem of the process. *)
(* A call runs as a sequence of steps, one for each stretch of code that   *)
(* ends with a filesystem call: a task holds the call, the position pc in  *)
(* its code, its local state loc, the paths of the walk or the entries of  *)
(* the archive still to handle, and the result res when it has returned.   *)
(***************************************************************************)

\* a call that keeps working on the filesystem as it was at its last step
Stale(state, fs) == state

\* the local state of a call brought up to the filesystem as it is now:
\* every filesystem call acts on the filesystem of the process
Refresh(state, fs) == [state EXCEPT !.fs = fs]

FormatOf(op) == IF op \in {"ZipDir", "Unzip"} THEN "zip" ELSE "targz"

ExtOf(op) == IF FormatOf(op) = "zip" THEN ZipExt ELSE TarGzExt

IsCompressOp(op) == op \in {"ZipDir", "TarGzDir"}

Task(op, raw, name) ==
    [op |-> op, raw |-> raw, name |-> name, pc |-> "start", loc |-> <<>>,
     todo |-> <<>>, idx |-> 1, content |-> <<>>, res |-> <<>>]

\* the pairs of calls: a compression of /s beside an extraction of the
\* archive from elsewhere into /o, and a compression of /s beside one of
\* its subdirectory /s/d, whose archive is created in /s
TaskPairs ==
    {<<Task("ZipDir", SrcDir, <<"x">>), Task("Unzip", MZip, <<>>)>>,
     <<Task("TarGzDir", SrcDir, <<"x">>), Task("Untar", MTarGz, <<>>)>>,
     <<Task("ZipDir", SrcDir, <<"x">>), Task("ZipDir", DirD, <<"y">>)>>}

InitConcurrent ==
    \E tree \in Trees : \E pair \in TaskPairs :
        /\ files = tree.files @@ (MZip :> Archive("zip", Foreign0, TRUE))
                              @@ (MTarGz :> Archive("targz", Foreign0, TRUE))
        /\ dirs = tree.dirs
        /\ ret = [op |-> "none", path |-> <<>>, count |-> 0, err |-> "nil"]
        /\ call = [op |-> "none"]
        /\ pre = [files |-> files, dirs |-> dirs]
        /\ log = <<>>
        /\ handles = {}
        /\ ops = 0
        /\ tasks = pair
        /\ NoObjects

\* a step of task t that leaves it in state next and the filesystem as fs
Stepped(t, next, fs) ==
    /\ tasks' = [tasks EXCEPT ![t] = next]
    /\ files' = fs.files
    /\ dirs' = fs.dirs
    /\ UNCHANGED <<ret, call, pre, log, handles, ops, handle, sleeper>>

\* task t returns r
Returned(t, r) ==
    Stepped(t, [tasks[t] EXCEPT !.pc = "done", !.res = [r EXCEPT !.fs = <<>>]], r.fs)

\* ZipDir and TarGzDir up to the return of prepareCompression
TaskPrepare ==
    \E t \in DOMAIN tasks :
        /\ IsCompressOp(tasks[t].op)
        /\ tasks[t].pc = "start"
        /\ \E prep \in {prepareCompression(FS, Path(tasks[t].raw), tasks[t].name,
                                           ExtOf(tasks[t].op), NoFault)} :
              IF prep.err # "nil" THEN Returned(t, compressFailed(prep))
              ELSE Stepped(t, [tasks[t] EXCEPT !.pc = "walk",
                                               !.loc = compressStart(prep)], prep.fs)

\* the start of the walk: the paths it will visit
TaskWalk ==
    \E t \in DOMAIN tasks :
        /\ tasks[t].pc = "walk"
        /\ IF Stat(FS, Path(tasks[t].raw).absPath) = "none"
           THEN Stepped(t, [tasks[t] EXCEPT !.pc = "visit", !.loc.err = "panic"], FS)
           ELSE Stepped(t, [tasks[t] EXCEPT !.pc = "visit",
                               !.todo = WalkPaths(FS, Path(tasks[t].raw).absPath)], FS)

\* one call of the walk function
TaskVisit ==
    \E t \in DOMAIN tasks :
        /\ tasks[t].pc = "visit"
        /\ tasks[t].todo # <<>>
        /\ tasks[t].loc.err = "nil"
        /\ \E cs \in {compressVisit(Refresh(tasks[t].loc, FS), Path(tasks[t].raw),
                                    FormatOf(tasks[t].op), Head(tasks[t].todo),
                                    NoFault)} :
              Stepped(t, [tasks[t] EXCEPT !.loc = cs, !.todo = Tail(@)], cs.fs)

\* the end of the walk, the deferred Close calls and the return
TaskClose ==
    \E t \in DOMAIN tasks :
        /\ tasks[t].pc = "visit"
        /\ tasks[t].todo = <<>> \/ tasks[t].loc.err # "nil"
        /\ Returned(t, compressReturn(Refresh(tasks[t].loc, FS),
                                      FormatOf(tasks[t].op), NoFault))

\* the subdirectory an extraction task writes to
TaskSubDir(t) ==
    Join(Path(DestDir), <<TrimSuffix(Path(tasks[t].raw).Name, ExtOf(tasks[t].op))>>)

\* Unzip and Untar up to the return of subDir.MkdirAll
TaskMkdir ==
    \E t \in DOMAIN tasks :
        /\ ~IsCompressOp(tasks[t].op)
        /\ tasks[t].pc = "start"
        /\ \E made \in {MkdirAll(FS, TaskSubDir(t))} :
              IF ~made.ok THEN Returned(t, extractStart(FS, "io", {}))
              ELSE Stepped(t, [tasks[t] EXCEPT !.pc = "open"], made.fs)

\* zip.OpenReader / prepareUntarEnvironment
TaskOpen ==
    \E t \in DOMAIN tasks :
        /\ tasks[t].pc = "open"
        /\ \E p \in {Path(tasks[t].raw)} :
              IF ~archiveOpens(FS, p, FormatOf(tasks[t].op), NoFault)
              THEN Returned(t, extractStart(FS, "io", {}))
              ELSE Stepped(t, [tasks[t] EXCEPT
                                  !.pc = "entry",
                                  !.loc = extractStart(FS, "nil", {"archiveReader"}),
                                  !.content = files[p.absPath],
                                  !.todo = files[p.absPath].entries], FS)

\* the body of the loop for one entry
TaskEntry ==
    \E t \in DOMAIN tasks :
        /\ tasks[t].pc = "entry"
        /\ tasks[t].idx <= Len(tasks[t].todo)
        /\ tasks[t].loc.err = "nil"
        /\ \E st \in {IF FormatOf(tasks[t].op) = "zip"
                      THEN extractZipFile(Refresh(tasks[t].loc, FS),
                                          tasks[t].todo[tasks[t].idx], TaskSubDir(t),
                                          maxSize, NoFault, tasks[t].idx)
                      ELSE untarEntry(Refresh(tasks[t].loc, FS),
                                      tasks[t].todo[tasks[t].idx], TaskSubDir(t),
                                      maxSize, NoFault, tasks[t].idx)} :
              Stepped(t, [tasks[t] EXCEPT !.loc = st, !.idx = @ + 1], st.fs)

\* the end of the loop and the return
TaskReturn ==
    \E t \in DOMAIN tasks :
        /\ tasks[t].pc = "entry"
        /\ tasks[t].idx > Len(tasks[t].todo) \/ tasks[t].loc.err # "nil"
        /\ Returned(t, extractReturn(Refresh(tasks[t].loc, FS), tasks[t].content))

NextConcurrent ==
    \/ TaskPrepare
    \/ TaskWalk
    \/ TaskVisit
    \/ TaskClose
    \/ TaskMkdir
    \/ TaskOpen
    \/ TaskEntry
    \/ TaskReturn

SpecConcurrent == InitConcurrent /\ [][NextConcurrent]_vars

(***************************************************************************)
(* Walk with a walk function of the caller                                 *)
(*                                                                         *)
(* The walk function of the model returns error e when it is called for    *)
(* the relative path target, and nil for every other path.                 *)
(***************************************************************************)

\* the errors a walk function returns
WalkErrors == {"errTest", "SkipDir"}

\* the walk function of the caller
walkFn(target, e, relPath) == IF relPath = target THEN e ELSE "nil"

RECURSIVE walk(_, _, _, _, _, _)
RECURSIVE walkKidsThrough(_, _, _, _, _, _)
RECURSIVE walkKids(_, _, _, _, _, _)

\* the loop over the names of a directory that goes on after an error
walkKidsThrough(fs, root, kids, target, e, calls) ==
    IF kids = <<>> THEN [calls |-> calls, err |-> "nil"]
    ELSE walkKidsThrough(fs, root, Tail(kids), target, e,
                         walk(fs, root, Head(kids), target, e, calls).calls)

\* afero's walk, the loop over the names of a directory: the error of a
\* child ends the loop, except SkipDir from a child that is a directory
walkKids(fs, root, kids, target, e, calls) ==
    IF kids = <<>> THEN [calls |-> calls, err |-> "nil"]
    ELSE LET r == walk(fs, root, Head(kids), target, e, calls) IN
         IF r.err # "nil" /\ (Stat(fs, Head(kids)) # "dir" \/ r.err # "SkipDir")
         THEN r
         ELSE walkKids(fs, root, Tail(kids), target, e, r.calls)

\* afero's walk of path with the function FsPath.Walk passes: the walk
\* function of the caller is called with the path relative to root; calls
\* are the calls made so far
walk(fs, root, path, target, e, calls) ==
    LET made == Append(calls, Rel(root, path))
        err  == walkFn(target, e, Rel(root, path))
    IN  IF err # "nil"
        THEN IF Stat(fs, path) = "dir" /\ err = "SkipDir"
             THEN [calls |-> made, err |-> "nil"]
             ELSE [calls |-> made, err |-> err]
        ELSE IF Stat(fs, path) # "dir" THEN [calls |-> made, err |-> "nil"]
        ELSE walkKids(fs, root, Sorted(Children(fs, path)), target, e, made)

\* FsPath.Walk: when the root cannot be read afero.Walk passes a nil
\* FileInfo, which the function of FsPath.Walk dereferences
Walk(fs, p, target, e) ==
    IF Stat(fs, p.absPath) = "none" THEN [calls |-> <<>>, err |-> "panic"]
    ELSE walk(fs, p.absPath, p.absPath, target, e, <<>>)

\* the roots of the walks
WalkRoots == {SrcDir, DirD}

\* the relative paths the walk function answers with an error
WalkTargets ==
    {<<".">>, <<"a">>, <<"d">>, <<"d", "/", "b">>, <<"b">>, <<"e">>}

InitWalk == \E tree \in Trees : Start(tree, Foreign0)

DoWalk ==
    /\ Calling
    /\ \E raw \in WalkRoots : \E target \in WalkTargets : \E e \in WalkErrors :
          \E r \in {Walk(FS, Path(raw), target, e)} :
              /\ ret' = [op |-> "Walk", path |-> <<>>, count |-> 0, err |-> r.err,
                         calls |-> r.calls]
              /\ call' = [op |-> "Walk", raw |-> raw, target |-> target, e |-> e]
              /\ pre' = FS
              /\ ops' = ops + 1
              /\ UNCHANGED <<files, dirs, log, handles, tasks, handle, sleeper>>

NextWalk == DoWalk

SpecWalk == InitWalk /\ [][NextWalk]_vars

(***************************************************************************)
(* Reading, writing and appending the content of a file                    *)
(*                                                                         *)
(* The data of a call is a sequence of bytes; a Go string is its bytes,    *)
(* and []byte(data) and string(data) copy them.                            *)
(***************************************************************************)

\* FsPath.GetBytes (afero.ReadFile)
GetBytes(fs, p) ==
    IF Stat(fs, p.absPath) = "file"
    THEN [data |-> fs.files[p.absPath].data, err |-> "nil"]
    ELSE [data |-> <<>>, err |-> "read"]

\* FsPath.GetString
GetString(fs, p) == GetBytes(fs, p)

\* FsPath.SetBytes: the parent directories, then afero.WriteFile, which
\* opens with O_WRONLY|O_CREATE|O_TRUNC and writes data
SetBytes(fs, p, data) ==
    LET made == MkParentDir(fs, p)
        opened == OsCreate(made.fs, p.absPath)
    IN  IF ~made.ok THEN [fs |-> fs, err |-> "mkdir"]
        ELSE IF ~opened.ok THEN [fs |-> made.fs, err |-> "open"]
        ELSE [fs |-> WriteFile(opened.fs, p.absPath, Bytes(data)), err |-> "nil"]

\* FsPath.SetString
SetString(fs, p, data) == SetBytes(fs, p, data)

\* FsPath.WriteText, WriteBytes, ReadText, ReadBytes
WriteText(fs, p, data) == SetString(fs, p, data)

WriteBytes(fs, p, data) == SetBytes(fs, p, data)

ReadText(fs, p) == GetString(fs, p)

ReadBytes(fs, p) == GetBytes(fs, p)

\* appendData that opens the file with O_TRUNC
appendTruncating(fs, p, data) == SetBytes(fs, p, data)

\* FsPath.appendData: the parent directories, then OpenFile with
\* O_APPEND|O_CREATE|O_WRONLY and Write, which puts data at the end
appendData(fs, p, data) ==
    LET made == MkParentDir(fs, p)
        opened == OsOpenCreate(made.fs, p.absPath)
    IN  IF ~made.ok THEN [fs |-> fs, err |-> "mkdir"]
        ELSE IF ~opened.ok THEN [fs |-> made.fs, err |-> "open"]
        ELSE [fs |-> WriteFile(opened.fs, p.absPath,
                               Bytes(opened.fs.files[p.absPath].data \o data)),
              err |-> "nil"]

\* FsPath.AppendText, AppendBytes
AppendText(fs, p, data) == appendData(fs, p, data)

AppendBytes(fs, p, data) == appendData(fs, p, data)

\* the number of calls on the path
MaxContentOps == 3

\* the path of the calls: "/t/f"
ContentFile == <<"/", "t", "/", "f">>

\* what is at the path before the first call: a file, nothing with or
\* without its parent directory, or a directory
ContentStarts ==
    {[files |-> (ContentFile :> Bytes(<<1, 2>>)), dirs |-> {<<"/">>, Dir(ContentFile)}],
     [files |-> (ContentFile :> Bytes(<<>>)), dirs |-> {<<"/">>, Dir(ContentFile)}],
     [files |-> <<>>, dirs |-> {<<"/">>, Dir(ContentFile)}],
     [files |-> <<>>, dirs |-> {<<"/">>}],
     [files |-> <<>>, dirs |-> {<<"/">>, Dir(ContentFile), ContentFile}]}

\* the data of the calls
ContentData == {<<>>, <<3>>, <<4, 5>>}

InitContent ==
    \E start \in ContentStarts :
        /\ files = start.files
        /\ dirs = start.dirs
        /\ ret = [op |-> "none", data |-> <<>>, err |-> "nil"]
        /\ call = [op |-> "Path"]
        /\ pre = start
        /\ log = <<>>
        /\ handles = {}
        /\ ops = 0
        /\ tasks = <<>>
        /\ handle = Path(ContentFile)
        /\ sleeper = <<>>

\* the caller goes on calling while no call has failed
ContentCalling == ops < MaxContentOps /\ ret.err = "nil"

\* a call that changes the file returns r
Changed(op, data, r) ==
    /\ files' = r.fs.files
    /\ dirs' = r.fs.dirs
    /\ ret' = [op |-> op, data |-> <<>>, err |-> r.err]
    /\ call' = [op |-> op]
    /\ log' = Append(log, [op |-> op, data |-> data])
    /\ ops' = ops + 1
    /\ UNCHANGED <<pre, handles, tasks, handle, sleeper>>

\* a call that reads the file returns r
Read(op, r) ==
    /\ ret' = [op |-> op, data |-> r.data, err |-> r.err]
    /\ call' = [op |-> op]
    /\ ops' = ops + 1
    /\ UNCHANGED <<files, dirs, pre, log, handles, tasks, handle, sleeper>>

DoWriteText ==
    /\ ContentCalling
    /\ \E data \in ContentData : Changed("WriteText", data, WriteText(FS, handle, data))

DoWriteBytes ==
    /\ ContentCalling
    /\ \E data \in ContentData : Changed("WriteBytes", data, WriteBytes(FS, handle, data))

DoAppendText ==
    /\ ContentCalling
    /\ \E data \in ContentData : Changed("AppendText", data, AppendText(FS, handle, data))

DoAppendBytes ==
    /\ ContentCalling
    /\ \E data \in ContentData : Changed("AppendBytes", data, AppendBytes(FS, handle, data))

DoReadText ==
    /\ ContentCalling
    /\ Read("ReadText", ReadText(FS, handle))

DoReadBytes ==
    /\ ContentCalling
    /\ Read("ReadBytes", ReadBytes(FS, handle))

NextContent ==
    \/ DoWriteText
    \/ DoWriteBytes
    \/ DoAppendText
    \/ DoAppendBytes
    \/ DoReadText
    \/ DoReadBytes

SpecContent == InitContent /\ [][NextContent]_vars

(***************************************************************************)
(* Path handles: the caller builds a handle from a raw string and derives  *)
(* further handles from it                                                 *)
(***************************************************************************)

\* FsPath.WithName
WithName(p, name) == Join(Parent(p), <<name>>)

\* FsPath.ExpandUser
FsPathExpandUser(p) == Path(ExpandUser(p.absPath))

\* FsPath.Expand
FsPathExpand(p) == Path(Expand(p.absPath))

\* the loop of Parents: the parents of current up to the root or the working
\* directory, neither of which it appends
RECURSIVE parentsLoop(_, _)
parentsLoop(current, cwd) ==
    LET parent == Parent(current) IN
    IF parent.absPath = current.absPath \/ parent.absPath = cwd THEN <<>>
    ELSE <<parent>> \o parentsLoop(parent, cwd)

\* FsPath.Parents
Parents(p) == IF p.RawPath = <<".">> THEN <<>> ELSE parentsLoop(p, Cwd)

\* the number of handles derived in a behaviour
MaxPathOps == 2

\* the length of the longest raw string given to the constructor
MaxRawLen == 3

\* the characters of the raw strings
PathChars == {"/", ".", "a", "~", "$"}

RawPaths == UNION {[1..n -> PathChars] : n \in 0..MaxRawLen}

\* the components given to Join and WithName
Components ==
    {<<>>, <<"a">>, <<".", ".">>, <<"/", "a", "/", "/">>, <<"~">>, <<"$", "a">>}

\* the first of two components
Firsts == {<<".", ".">>}

JoinArgs ==
    {<<c>> : c \in Components} \cup {<<c, d>> : c \in Firsts, d \in Components}

\* the regular file of the filesystem the handles refer to: "/w/a"
FileWA == <<"/", "w", "/", "a">>

InitPath ==
    /\ files = (FileWA :> Bytes(<<1>>))
    /\ dirs = {<<"/">>, Cwd, HomeDir}
    /\ ret = [op |-> "none", path |-> <<>>, count |-> 0, err |-> "nil"]
    /\ call = [op |-> "Path"]
    /\ pre = [files |-> <<>>, dirs |-> {}]
    /\ log = <<>>
    /\ handles = {}
    /\ ops = 0
    /\ tasks = <<>>
    /\ sleeper = <<>>
    /\ \E raw \in RawPaths : handle = Path(raw)

\* the caller replaces its handle by p, which call c derived from it
Derived(c, p) ==
    /\ handle' = p
    /\ call' = c
    /\ ops' = ops + 1
    /\ UNCHANGED <<files, dirs, ret, pre, log, handles, tasks, sleeper>>

DoJoin ==
    /\ ops < MaxPathOps
    /\ \E others \in JoinArgs : Derived([op |-> "Join", p |-> handle, others |-> others],
                                   Join(handle, others))

DoParent ==
    /\ ops < MaxPathOps
    /\ Derived([op |-> "Parent"], Parent(handle))

DoWithName ==
    /\ ops < MaxPathOps
    /\ \E name \in Components : Derived([op |-> "WithName"], WithName(handle, name))

DoExpandUser ==
    /\ ops < MaxPathOps
    /\ Derived([op |-> "ExpandUser"], FsPathExpandUser(handle))

DoExpand ==
    /\ ops < MaxPathOps
    /\ Derived([op |-> "Expand"], FsPathExpand(handle))

\* the caller asks for the parents of its handle
DoParents ==
    /\ ops < MaxPathOps
    /\ ret' = [op |-> "Parents", parents |-> Parents(handle)]
    /\ call' = [op |-> "Parents"]
    /\ ops' = ops + 1
    /\ UNCHANGED <<files, dirs, pre, log, handles, tasks, sleeper, handle>>

NextPath ==
    DoJoin \/ DoParent \/ DoWithName \/ DoExpandUser \/ DoExpand \/ DoParents

SpecPath == InitPath /\ [][NextPath]_vars

(***************************************************************************)
(* Durations and floating-point numbers                                    *)
(*                                                                         *)
(* A number is a record [m, e] that stands for m * 2^e, with m odd, or     *)
(* m = 0 and e = 0, so that equal numbers are equal records.  A            *)
(* time.Duration is such a number with e >= 0: a count of nanoseconds in   *)
(* 64 bits.  A float64 is a record [kind, v]: kind "fin" with the number   *)
(* v, kind "inf" with the sign v of the infinity, or kind "nan".           *)
(***************************************************************************)

RECURSIVE Norm(_)
Norm(x) ==
    IF x.m = 0 THEN [m |-> 0, e |-> 0]
    ELSE IF x.m % 2 = 0 THEN Norm([m |-> x.m \div 2, e |-> x.e + 1])
    ELSE x

\* the number n
Num(n) == Norm([m |-> n, e |-> 0])

\* n times x
Times(n, x) == Norm([m |-> n * x.m, e |-> x.e])

\* x times 2^k
Shift(x, k) == IF x.m = 0 THEN x ELSE [m |-> x.m, e |-> x.e + k]

Sign(x) == IF x.m > 0 THEN 1 ELSE IF x.m < 0 THEN 0 - 1 ELSE 0

Mag(x) == IF x.m < 0 THEN [m |-> 0 - x.m, e |-> x.e] ELSE x

\* the number of bits of n > 0
RECURSIVE BitLen(_)
BitLen(n) == IF n = 0 THEN 0 ELSE 1 + BitLen(n \div 2)

\* the position of the highest bit of x > 0: x lies in [2^(Top(x)-1), 2^Top(x))
Top(x) == BitLen(x.m) + x.e

\* x < y for x, y > 0
LessMag(x, y) ==
    IF Top(x) # Top(y) THEN Top(x) < Top(y)
    ELSE LET e0 == IF x.e < y.e THEN x.e ELSE y.e
         IN  x.m * 2^(x.e - e0) < y.m * 2^(y.e - e0)

Less(x, y) ==
    IF Sign(x) # Sign(y) THEN Sign(x) < Sign(y)
    ELSE IF Sign(x) = 0 THEN FALSE
    ELSE IF Sign(x) > 0 THEN LessMag(x, y)
    ELSE LessMag(Mag(y), Mag(x))

LessEq(x, y) == x = y \/ Less(x, y)

Add(x, y) ==
    IF x.m = 0 THEN y
    ELSE IF y.m = 0 THEN x
    ELSE LET e0 == IF x.e < y.e THEN x.e ELSE y.e
         IN  Norm([m |-> x.m * 2^(x.e - e0) + y.m * 2^(y.e - e0), e |-> e0])

\* x with its fraction cut off
Trunc(x) ==
    IF x.e >= 0 THEN x
    ELSE IF x.m >= 0 THEN Num(x.m \div 2^(0 - x.e))
    ELSE Num(0 - ((0 - x.m) \div 2^(0 - x.e)))

\* time.Nanosecond, time.Second, time.Minute
Nanosecond == Num(1)

Second == Times(1000000000, Nanosecond)

Minute == Times(60, Second)

\* the number of value bits of an int64
Int64Bits == 63

MinInt64 == [m |-> 0 - 1, e |-> Int64Bits]

\* x is a value of an int64
InInt64(x) ==
    \/ Sign(x) = 0
    \/ Sign(x) > 0 /\ Top(x) <= Int64Bits
    \/ Sign(x) < 0 /\ LessEq(MinInt64, x)

\* the sum of two int64 in 64 bits
Add64(x, y) ==
    LET sum == Add(x, y) IN
    IF InInt64(sum) THEN sum
    ELSE IF Sign(sum) > 0 THEN Add(sum, [m |-> 0 - 1, e |-> Int64Bits + 1])
    ELSE Add(sum, [m |-> 1, e |-> Int64Bits + 1])

Fin(x) == [kind |-> "fin", v |-> x]

Inf(sign) == [kind |-> "inf", v |-> sign]

NaN == [kind |-> "nan", v |-> 0]

\* the exponent at which a float64 overflows: 2^k is infinite from here on
Float64MaxExp == 1024

\* the float64 of a number, infinite when it is too large
Float64(x) ==
    IF Sign(x) # 0 /\ Top(Mag(x)) > Float64MaxExp THEN Inf(Sign(x)) ELSE Fin(x)

\* math.Pow(2, k) for an integer k >= 0
Pow2(k) == Float64([m |-> 1, e |-> k])

\* the product of two float64, one of them a power of two
FMul(a, b) ==
    IF a.kind = "nan" \/ b.kind = "nan" THEN NaN
    ELSE IF a.kind = "inf" /\ b.kind = "inf" THEN Inf(a.v * b.v)
    ELSE IF a.kind = "inf"
    THEN IF Sign(b.v) = 0 THEN NaN ELSE Inf(a.v * Sign(b.v))
    ELSE IF b.kind = "inf"
    THEN IF Sign(a.v) = 0 THEN NaN ELSE Inf(Sign(a.v) * b.v)
    ELSE Float64(Norm([m |-> a.v.m * b.v.m, e |-> a.v.e + b.v.e]))

\* math.Min
FMin(a, b) ==
    IF a.kind = "nan" \/ b.kind = "nan" THEN NaN
    ELSE IF a.kind = "inf" THEN (IF a.v < 0 THEN a ELSE b)
    ELSE IF b.kind = "inf" THEN (IF b.v < 0 THEN b ELSE a)
    ELSE IF Less(b.v, a.v) THEN b ELSE a

\* what the conversion of a float64 that no int64 holds yields: the result
\* depends on the implementation; amd64 yields the smallest int64, arm64
\* yields 0 for a NaN
Unrepresentable == {MinInt64, Num(0)}

\* time.Duration(f): the values the conversion of a float64 can yield
ToDuration(f) ==
    IF f.kind = "fin" /\ InInt64(Trunc(f.v)) THEN {Trunc(f.v)}
    ELSE Unrepresentable

(***************************************************************************)
(* The Sleeper                                                             *)
(***************************************************************************)

\* NewSleeper: 5 seconds, 30 minutes, jitter enabled
NewSleeper ==
    [attempts  |-> 0,
     baseDelay |-> Times(5, Second),
     maxDelay  |-> Times(30, Minute),
     useJitter |-> TRUE]

\* Sleeper.WithDelays
WithDelays(s, base, max) == [s EXCEPT !.baseDelay = base, !.maxDelay = max]

\* Sleeper.WithJitter
WithJitter(s, enable) == [s EXCEPT !.useJitter = enable]

\* the values of rand.Float64() the model draws: 0 and 1/2
Rands == {Num(0), [m |-> 1, e |-> 0 - 1]}

\* the exponential delay of Sleep: the values baseDelay can take
backoffDelay(s) ==
    ToDuration(FMin(FMul(Float64(s.baseDelay), Pow2(s.attempts)),
                    Float64(s.maxDelay)))

\* the values of baseDelay + jitter
jittered(baseDelay) ==
    {Add64(baseDelay, jitter) :
        jitter \in UNION {ToDuration(FMul(Fin(r), Float64(baseDelay))) : r \in Rands}}

\* the values of actualDelay
actualDelays(s) ==
    IF s.useJitter THEN UNION {jittered(d) : d \in backoffDelay(s)}
    ELSE backoffDelay(s)

\* Sleeper.Sleep: the Sleeper after the call and the duration returned
Sleep(s) ==
    {[sleeper |-> [s EXCEPT !.attempts = @ + 1], delay |-> d] : d \in actualDelays(s)}

\* Reset that leaves the attempt counter alone
ResetKeeping(s) == s

\* Sleeper.Reset
Reset(s) == [s EXCEPT !.attempts = 0]

\* the number of Sleep calls without a Reset
MaxAttempts == 1025

\* the delays the caller configures: base and max
DelayPairs ==
    {<<Num(0), Num(20)>>, <<Num(3), Num(20)>>, <<Num(20), Num(3)>>,
     <<Second, Minute>>, <<Times(5, Second), Times(30, Minute)>>}

InitSleeper ==
    /\ files = <<>>
    /\ dirs = {}
    /\ ret = [op |-> "none", delay |-> Num(0)]
    /\ call = [op |-> "NewSleeper", k |-> 0, prev |-> "none", prevk |-> 0]
    /\ pre = NewSleeper
    /\ log = <<>>
    /\ handles = {}
    /\ ops = 0
    /\ tasks = <<>>
    /\ handle = <<>>
    /\ sleeper = NewSleeper

\* call op of the Sleeper returns and leaves the Sleeper as s
Called(op, s) ==
    /\ sleeper' = s
    /\ pre' = sleeper
    /\ call' = [op |-> op, k |-> sleeper.attempts, prev |-> call.op, prevk |-> call.k]
    /\ UNCHANGED <<files, dirs, log, handles, ops, tasks, handle>>

\* the caller configures the Sleeper before the first Sleep or after a Reset
DoWithDelays ==
    /\ sleeper.attempts = 0
    /\ \E d \in DelayPairs : Called("WithDelays", WithDelays(sleeper, d[1], d[2]))
    /\ ret' = ret

DoWithJitter ==
    /\ sleeper.attempts = 0
    /\ \E enable \in BOOLEAN : Called("WithJitter", WithJitter(sleeper, enable))
    /\ ret' = ret

DoSleep ==
    /\ sleeper.attempts < MaxAttempts
    /\ \E r \in Sleep(sleeper) :
          /\ Called("Sleep", r.sleeper)
          /\ ret' = [op |-> "Sleep", delay |-> r.delay]

DoReset ==
    /\ Called("Reset", Reset(sleeper))
    /\ ret' = ret

NextSleeper == DoWithDelays \/ DoWithJitter \/ DoSleep \/ DoReset

SpecSleeper == InitSleeper /\ [][NextSleeper]_vars

(***************************************************************************)
(* Random sleep durations                                                  *)
(*                                                                         *)
(* A float64 argument is a number of ten-thousandths: the integer x stands *)
(* for x / PerOne.  The arguments of the model are multiples of this step, *)
(* for which the products and sums of the code are exact.                  *)
(***************************************************************************)

\* secToMs of RandFloatX1k
secToMs == 1000

\* the integers that stand for 1.0
PerOne == 10 * secToMs

\* int(x): the fraction cut off
IntOf(x) == IF x >= 0 THEN x \div PerOne ELSE 0 - ((0 - x) \div PerOne)

\* int(math.Round(x)): halves go away from zero
RoundOf(x) ==
    IF x >= 0 THEN (2 * x + PerOne) \div (2 * PerOne)
    ELSE 0 - ((2 * (0 - x) + PerOne) \div (2 * PerOne))

\* rand.Intn(n): the values it returns; it panics when n <= 0
Intn(n) == 0..(n - 1)

\* RandFloatX1k: the results it can return, err "panic" when rand.Intn panics
RandFloatX1k(minNum, maxNum) ==
    IF minNum = maxNum THEN {[value |-> IntOf(minNum), err |-> "nil"]}
    ELSE LET minI == RoundOf(minNum * secToMs)
             maxI == RoundOf(maxNum * secToMs)
         IN  IF maxI - minI <= 0 THEN {[value |-> 0, err |-> "panic"]}
             ELSE {[value |-> minI + r, err |-> "nil"] : r \in Intn(maxI - minI)}

\* RandRange: the milliseconds slept
RandRange(minNum, maxNum) == RandFloatX1k(minNum, maxNum)

\* randNS for a scale that divides num
randNS(num, scale) == RandRange(num \div scale, num + num - (num \div scale))

\* the arguments: -1, 0, 0.0004, 0.0005, 1, 1.0004 and 2
RandNums == {0 - PerOne, 0, 4, 5, PerOne, PerOne + 4, 2 * PerOne}

\* the scales of randNS
RandScales == {1, 2}

\* the caller has chosen the arguments of its call
InitRand ==
    /\ files = <<>>
    /\ dirs = {}
    /\ ret = [op |-> "none", value |-> 0, err |-> "nil"]
    /\ \E minNum \in RandNums : \E maxNum \in {x \in RandNums : minNum <= x} :
          call = [op |-> "none", minNum |-> minNum, maxNum |-> maxNum]
    /\ pre = [files |-> <<>>, dirs |-> {}]
    /\ log = <<>>
    /\ handles = {}
    /\ ops = 0
    /\ tasks = <<>>
    /\ handle = <<>>
    /\ sleeper = <<>>

\* call c returns r
Drawn(c, r) ==
    /\ ret' = [op |-> c.op, value |-> r.value, err |-> r.err]
    /\ call' = c
    /\ ops' = ops + 1
    /\ UNCHANGED <<files, dirs, pre, log, handles, tasks, handle, sleeper>>

\* the one call of the caller: RandFloatX1k with its arguments
DoRandFloatX1k ==
    /\ call.op = "none"
    /\ \E r \in RandFloatX1k(call.minNum, call.maxNum) :
          Drawn([call EXCEPT !.op = "RandFloatX1k"], r)

\* or randNS with the first argument as the number and a scale that
\* divides it
DoRandNS ==
    /\ call.op = "none"
    /\ call.minNum >= 0
    /\ \E scale \in {k \in RandScales : call.minNum % k = 0} :
          \E r \in randNS(call.minNum, scale) :
              Drawn([op |-> "randNS", minNum |-> call.minNum \div scale,
                     maxNum |-> call.minNum + call.minNum - (call.minNum \div scale)], r)

NextRand == DoRandFloatX1k \/ DoRandNS

SpecRand == InitRand /\ [][NextRand]_vars

(***************************************************************************)
(* Properties                                                              *)
(***************************************************************************)

IsCompress == ret.op \in {"ZipDir", "TarGzDir"}

IsExtract == ret.op \in {"Unzip", "Untar"}

\* path q is directory dir or lies below it
Inside(q, dir) == q = dir \/ HasPrefix(q, dir \o <<"/">>)

\* the regular files at or below dir, as pairs of relative path and content
TreeOf(fs, dir) ==
    {<<Rel(dir, q), fs.files[q]>> : q \in {x \in DOMAIN fs.files : Inside(x, dir)}}

\* the values of a sequence
Range(seq) == {seq[i] : i \in 1..Len(seq)}

\* the source of the last compression
Source == Path(call.raw).absPath

\* the subdirectory <destDir>/<archive base name> of the last extraction
SubDir ==
    Join(Path(DestDir),
         <<TrimSuffix(Path(call.raw).Name,
                      IF ret.op = "Unzip" THEN ZipExt ELSE TarGzExt)>>).absPath

\* the entries of the archive the last extraction read
Entries == pre.files[call.raw].entries

XZip == <<"/", "x", ".", "z", "i", "p">>

XTarGz == <<"/", "x", ".", "t", "a", "r", ".", "g", "z">>

OutX == <<"/", "o", "/", "x">>

\* C1: round trip.  In a behaviour of two calls whose second call extracted
\* /x.zip or /x.tar.gz with success, the archive was made by the first call
\* from the tree /s (no other call makes that file), and the files below
\* /o/x are those below /s: the same relative paths with the same content.
RoundTrip ==
    (/\ ops = 2
     /\ IsExtract
     /\ ret.err = "nil"
     /\ call.raw = (IF ret.op = "Unzip" THEN XZip ELSE XTarGz))
        => TreeOf(FS, OutX) = TreeOf(pre, SrcDir)

\* C2: traversal guard.  After Unzip or Untar, every entry handled whose
\* target lies outside <destDir>/<archive base name> made the extraction
\* fail with ErrIllegalFilePath, and every file or directory the call
\* created lies in the destination directory.
TraversalGuard ==
    IsExtract =>
        /\ \A i \in 1..Len(log) :
              ~Inside(log[i].target, SubDir)
                  => log[i].err = "ErrIllegalFilePath" /\ ret.err = "ErrIllegalFilePath"
        /\ \A q \in (DOMAIN files \cup dirs) \ (DOMAIN pre.files \cup pre.dirs) :
              Inside(q, DestDir)

\* C3: size guard.  After Unzip or Untar, every regular entry handled whose
\* target lies in the destination subdirectory and whose declared size is
\* above MaxSize made the extraction fail with ErrFileTooLarge, and no
\* bytes were written for it.
SizeGuard ==
    IsExtract =>
        \A i \in 1..Len(log) :
            (/\ log[i].typ = "reg"
             /\ log[i].size > call.max
             /\ Inside(log[i].target, SubDir))
                => /\ log[i].err = "ErrFileTooLarge"
                   /\ ret.err = "ErrFileTooLarge"
                   /\ log[i].written = 0

\* whether the copy of entry i of the last extraction ran
Copied(i) == "Copy" \in Range(log[i].calls)

NonDirectorySource ==
    (IsCompress /\ Stat(pre, Source) # "dir")
        => ret.err = "ErrNotDirectory" /\ FS = pre

\* C7: idempotent overwrite.  After a successful ZipDir or TarGzDir, without
\* an injected fault, onto a file that existed, that file is the archive
\* of the call's format that the call wrote and nothing else, no byte of
\* what it held before: one entry for each regular file at or below the
\* source, under its relative path.
Overwrite ==
    (/\ IsCompress
     /\ ret.err = "nil"
     /\ call.fault = NoFault
     /\ ret.path \in DOMAIN pre.files)
        => /\ files[ret.path] =
                  Archive(IF ret.op = "ZipDir" THEN "zip" ELSE "targz",
                          files[ret.path].entries, files[ret.path].closed)
           /\ Len(files[ret.path].entries) = ret.count
           /\ {e.name : e \in Range(files[ret.path].entries)}
                  = {Rel(Source, q) : q \in {x \in DOMAIN files : Inside(x, Source)}}

\* C7, reached: a compression replaced a file that held more bytes than
\* the archive written over it
OverwriteReached ==
    /\ IsCompress
    /\ ret.err = "nil"
    /\ call.fault = NoFault
    /\ ret.path \in DOMAIN pre.files
    /\ Size(pre.files[ret.path]) > Size(files[ret.path])

\* the content c starts with the first n bytes of the content d
StartsWith(c, d, n) == Size(c) >= n /\ Take(c, n) = Take(d, n)

\* entry i of the last extraction had its file opened for writing
Opened(i) == "OpenFile" \in Range(log[i].calls)

\* C8: abort without rollback.  After Unzip or Untar the entries handled
\* are the first ones of the archive in order, only the last of them can
\* have failed and its error is the one returned, the file of every entry
\* copied before it holds the bytes written, and no file was created or
\* changed but those of the entries handled: the entries after the failing
\* one were not extracted.
AbortWithoutRollback ==
    IsExtract =>
        /\ \A i \in 1..Len(log) :
              /\ log[i].idx = i
              /\ log[i].err # "nil" => i = Len(log) /\ ret.err = log[i].err
              /\ (/\ Copied(i)
                  /\ \A j \in (i + 1)..Len(log) : log[j].target # log[i].target)
                     => /\ log[i].target \in DOMAIN files
                        /\ StartsWith(files[log[i].target], Entries[i].data,
                                      log[i].written)
        /\ \A q \in DOMAIN files :
              (q \notin DOMAIN pre.files \/ files[q] # pre.files[q])
                  => \E i \in 1..Len(log) : log[i].target = q /\ Opened(i)

\* C8, reached: an extraction failed at the second of three entries, and
\* the file of the first entry is on disk
AbortWithoutRollbackReached ==
    /\ IsExtract
    /\ ret.err # "nil"
    /\ Len(log) = 2
    /\ Len(Entries) = 3
    /\ Copied(1)
    /\ log[1].target \in DOMAIN files

\* C9: failure priority per entry.  Of the entries Unzip or Untar handled,
\* one whose target lies outside the destination subdirectory failed with
\* ErrIllegalFilePath, and a regular one inside it whose declared size is
\* above MaxSize failed with ErrFileTooLarge, both before any filesystem
\* call was made for the entry.
FailurePriority ==
    IsExtract =>
        \A i \in 1..Len(log) :
            /\ ~Inside(log[i].target, SubDir)
                   => log[i].err = "ErrIllegalFilePath" /\ log[i].calls = <<>>
            /\ (/\ Inside(log[i].target, SubDir)
                /\ log[i].typ = "reg"
                /\ log[i].size > call.max)
                   => log[i].err = "ErrFileTooLarge" /\ log[i].calls = <<>>

\* the fault injected in the last compression happened: the source was a
\* directory, so that the archive was created and closed, and a fault at a
\* file's Open, header or copy has its number among the files of the source
FaultHappened ==
    /\ IsCompress
    /\ call.fault # NoFault
    /\ Stat(pre, Source) = "dir"
    /\ call.fault.kind \in {"open", "writer", "copy"}
           => call.fault.at <= Cardinality({q \in DOMAIN pre.files : Inside(q, Source)})

\* C10: compression surfaces every I/O error.  A ZipDir or TarGzDir during
\* which opening a file, writing its header or its content, or creating or
\* closing the archive failed returned an error.
SurfacesEveryError == FaultHappened => ret.err # "nil"

\* C11: scoped handles.  When ZipDir, TarGzDir, Unzip or Untar has
\* returned, with or without an error, none of the handles it opened (the
\* archive, its writers or reader, a source file, a zip entry, a destination
\* file) is open.
ScopedHandles == handles = {}

\* C11, reached: an extraction failed at the copy of an entry, after it had
\* opened the archive, the entry and the file of the entry
ScopedHandlesReached ==
    /\ handles = {}
    /\ IsExtract
    /\ ret.err # "nil"
    /\ Len(log) > 0
    /\ Copied(Len(log))

\* the paths of the regular files that the last call created, removed or
\* changed
ChangedFiles ==
    {q \in DOMAIN files \cup DOMAIN pre.files :
        \/ q \notin DOMAIN files
        \/ q \notin DOMAIN pre.files
        \/ files[q] # pre.files[q]}

\* C12: compression frame.  ZipDir or TarGzDir changed no directory and at
\* most one file, the archive, and nothing at or below the source
\* directory was created, modified or deleted.
CompressionFrame ==
    IsCompress =>
        /\ dirs = pre.dirs
        /\ Cardinality(ChangedFiles) <= 1
        /\ \A q \in ChangedFiles : ~Inside(q, Source)

\* C13: extraction frame.  After Unzip or Untar the source archive holds
\* what it held before the call.
ExtractionFrame ==
    (IsExtract /\ call.raw \in DOMAIN pre.files)
        => /\ call.raw \in DOMAIN files
           /\ files[call.raw] = pre.files[call.raw]

\* C14: archive location.  The path a successful ZipDir or TarGzDir returned
\* is that of a file directly in the parent directory of the source.
ArchiveLocation ==
    (IsCompress /\ ret.err = "nil")
        => /\ ret.path \in DOMAIN files
           /\ Dir(ret.path) = Parent(Path(call.raw)).absPath

\* every concurrent call has returned
TasksDone == tasks # <<>> /\ \A t \in DOMAIN tasks : tasks[t].pc = "done"

\* the call of a task made on its own on filesystem fs
RunCall(fs, task) ==
    IF IsCompressOp(task.op)
    THEN CompressDir(fs, Path(task.raw), task.name, FormatOf(task.op), NoFault)
    ELSE Extract(fs, Path(task.raw), DestDir, maxSize, FormatOf(task.op), NoFault)

\* the results of the tasks and the filesystem are those of the call of
\* task first followed by the call of task second
AsIfInOrder(first, second) ==
    \E a \in {RunCall(pre, tasks[first])} :
        \E b \in {RunCall(a.fs, tasks[second])} :
            /\ FS = b.fs
            /\ tasks[first].res = [a EXCEPT !.fs = <<>>]
            /\ tasks[second].res = [b EXCEPT !.fs = <<>>]

\* the directory a task works on: the source of a compression, the
\* destination subdirectory of an extraction
TaskDirectory(t) ==
    IF IsCompressOp(tasks[t].op) THEN Path(tasks[t].raw).absPath
    ELSE TaskSubDir(t).absPath

\* the archive a task writes or reads
TaskArchive(t) ==
    IF IsCompressOp(tasks[t].op)
    THEN Join(Parent(Path(tasks[t].raw)),
              <<tasks[t].name \o ExtOf(tasks[t].op)>>).absPath
    ELSE Path(tasks[t].raw).absPath

\* neither the directory nor the archive of one task is, or lies inside,
\* the directory or the archive of the other
Apart ==
    \A a \in {TaskDirectory(1), TaskArchive(1)} :
        \A b \in {TaskDirectory(2), TaskArchive(2)} :
            ~Inside(a, b) /\ ~Inside(b, a)

Produced == files[ret.path].entries

EmptyDirs ==
    {d \in dirs : /\ Inside(d, Source)
                  /\ d # Source
                  /\ \A q \in (DOMAIN files \cup dirs) : q = d \/ ~Inside(q, d)}

\* C17: the archive a successful TarGzDir returned holds an entry for every
\* regular file of the source tree, those of its subdirectories included,
\* and an entry for every empty directory of the source tree.
TarGzIncludesEmptyDirs ==
    (ret.op = "TarGzDir" /\ ret.err = "nil")
        => /\ \A q \in {x \in DOMAIN files : Inside(x, Source)} :
                  \E e \in Range(Produced) : e.name = Rel(Source, q)
           /\ \A d \in EmptyDirs :
                  \E e \in Range(Produced) :
                      StripTrailingSlashes(e.name) = Rel(Source, d)

\* the segments of an absolute path after the root
Segments(s) == SplitSlash(SubSeq(s, 2, Len(s)))

\* s is absolute and normalized: the root, or "/" followed by segments
\* separated by single slashes, none of them empty, "." or ".."
Normalized(s) ==
    /\ IsAbs(s)
    /\ \/ s = <<"/">>
       \/ \A i \in DOMAIN Segments(s) :
             Segments(s)[i] \notin {<<>>, <<".">>, <<".", ".">>}

\* C18: the absolute-path string of every path handle, built by the
\* constructor from any raw string or derived by Join, Parent, WithName,
\* ExpandUser and Expand, is absolute and normalized, with no trailing slash
\* except for the filesystem root.
NormalizedHandle ==
    handle # <<>> =>
        /\ Normalized(handle.absPath)
        /\ handle.absPath # <<"/">> => handle.absPath[Len(handle.absPath)] # "/"

\* a handle derived by Join from a string that was not normalized after its
\* expansion
NormalizedHandleReached ==
    /\ handle # <<>>
    /\ call.op = "Join"
    /\ IsAbs(Expand(handle.RawPath))
    /\ ~Normalized(Expand(handle.RawPath))

\* d_k: the smaller of baseDelay * 2^k and maxDelay
LawDelay(s, k) ==
    IF Less(s.maxDelay, Shift(s.baseDelay, k)) THEN s.maxDelay
    ELSE Shift(s.baseDelay, k)

\* C19: the duration returned by the k-th Sleep call since construction or
\* the last Reset is d_k = min(baseDelay * 2^k, maxDelay) when jitter is
\* disabled and lies between d_k and 2 * d_k when jitter is enabled, and the
\* call advances k by one.
BackoffLaw ==
    call.op = "Sleep" =>
        /\ sleeper.attempts = call.k + 1
        /\ IF sleeper.useJitter
           THEN /\ LessEq(LawDelay(sleeper, call.k), ret.delay)
                /\ LessEq(ret.delay, Shift(LawDelay(sleeper, call.k), 1))
           ELSE ret.delay = LawDelay(sleeper, call.k)

\* the durations the first Sleep of a fresh Sleeper with the settings of s
\* can return
FirstSleeps(s) ==
    {r.delay : r \in Sleep(WithJitter(WithDelays(NewSleeper, s.baseDelay, s.maxDelay),
                                      s.useJitter))}

\* C20: Reset sets the attempt counter to 0 and leaves the base delay, the
\* maximum delay and the jitter setting unchanged, and the Sleep that
\* follows a Reset returns what the first Sleep of a fresh Sleeper with the
\* same settings returns.
ResetRestarts ==
    /\ call.op = "Reset" => sleeper = [pre EXCEPT !.attempts = 0]
    /\ call.op = "Sleep" /\ call.prev = "Reset" =>
          /\ sleeper.attempts = 1
          /\ ret.delay \in FirstSleeps(sleeper)

\* a Sleep that follows a Reset made after several Sleep calls that had
\* raised the delay
ResetRestartsReached ==
    /\ call.op = "Sleep"
    /\ call.prev = "Reset"
    /\ call.prevk > 1
    /\ LawDelay(sleeper, call.prevk) # LawDelay(sleeper, 0)

\* C21: Parents() returns the logical parents of the path in order: the
\* first element is the immediate parent, each following element is the
\* parent of the one before it, and the last element is the root path.
ParentsChain ==
    call.op = "Parents" =>
        LET ps == ret.parents IN
        /\ handle.absPath # <<"/">> /\ handle.RawPath # <<".">> => Len(ps) > 0
        /\ Len(ps) > 0 =>
              /\ ps[1].absPath = Dir(handle.absPath)
              /\ \A i \in 1..(Len(ps) - 1) : ps[i + 1].absPath = Dir(ps[i].absPath)
              /\ ps[Len(ps)].absPath = <<"/">>

\* the directory Join is documented to join to: the parent directory of a
\* path that is a regular file, the path itself otherwise
JoinBase(p) ==
    IF Stat(FS, p.absPath) = "file" /\ ~IsDir(FS, p) THEN Dir(p.absPath)
    ELSE p.absPath

\* C22: Join on a path that represents a file joins the components to the
\* parent directory of that file, and on a directory it joins them directly
\* to the path.
JoinOnFile ==
    call.op = "Join" /\ ~IsAbs(call.others[1]) =>
        handle.absPath = Path(JoinStr(<<JoinBase(call.p)>> \o call.others)).absPath

\* the walk function returned its error: it was called for the target
WalkFnFailed ==
    /\ call.op = "Walk"
    /\ \E i \in DOMAIN ret.calls : ret.calls[i] = call.target

\* the call for the target was the last call and Walk returned its error
WalkStopped ==
    /\ ret.calls[Len(ret.calls)] = call.target
    /\ ret.err = call.e

IsWrite(c) == c.op \in {"WriteText", "WriteBytes"}

\* the data of the most recent write followed by the data of the later
\* appends, or data followed by the data of all appends
RECURSIVE Appended(_, _)
Appended(data, calls) ==
    IF calls = <<>> THEN data
    ELSE IF IsWrite(Head(calls)) THEN Appended(Head(calls).data, Tail(calls))
    ELSE Appended(data \o Head(calls).data, Tail(calls))

\* the path was missing or a regular file before the first call
StartedAsFile == Stat(pre, ContentFile) # "dir"

\* the content of the file before the first call, empty when it was missing
StartData == IF Stat(pre, ContentFile) = "file" THEN pre.files[ContentFile].data ELSE <<>>

\* C24: after any sequence of WriteText/WriteBytes and AppendText/AppendBytes
\* calls on one path, starting from a missing or an existing file, reading
\* the file returns the data of the most recent write followed by the data of
\* all later appends in call order, or the initial content followed by all
\* appends; write and append create the file when it is missing.
WriteAppendSemantics ==
    /\ StartedAsFile /\ log # <<>> =>
          /\ ret.err = "nil"
          /\ Stat(FS, ContentFile) = "file"
    /\ StartedAsFile /\ call.op \in {"ReadText", "ReadBytes"}
           /\ (log # <<>> \/ Stat(pre, ContentFile) = "file") =>
          /\ ret.err = "nil"
          /\ ret.data = Appended(StartData, log)

\* a read after a write and a later append with data, of a file that had
\* content before
WriteAppendSemanticsReached ==
    /\ call.op = "ReadBytes"
    /\ Len(log) = 2
    /\ StartData # <<>>
    /\ IsWrite(log[1])
    /\ log[1].data # <<>>
    /\ ~IsWrite(log[2])
    /\ log[2].data # <<>>

\* C25: for all min <= max, RandFloatX1k(min, max) returns an integer
\* between min * 1000 and max * 1000 inclusive, including when min equals
\* max.
RandFloatX1kRange ==
    call.op \in {"RandFloatX1k", "randNS"} =>
        /\ ret.err = "nil"
        /\ call.minNum * secToMs <= ret.value * PerOne
        /\ ret.value * PerOne <= call.maxNum * secToMs

\* C26: tar stream ordering.  In the archive a successful TarGzDir returned,
\* the entries follow one another in the order their headers were written,
\* and the header of each is followed by as many bytes of body as it
\* declares before the next header or the end of the archive.
TarStreamOrdering ==
    (ret.op = "TarGzDir" /\ ret.err = "nil")
        => \A e \in Range(Produced) : Size(e.data) = e.size

\* entry i of the last extraction is the last one written to its target
LastAt(i) == \A j \in (i + 1)..Len(log) : log[j].target # log[i].target

\* C27: extraction over existing output.  After a successful Unzip or
\* Untar, the file of every regular entry, unless a later entry of the
\* archive went to the same path, holds the bytes of the entry and nothing
\* else, as many as the entry declares, whatever was at the path before.
ExtractedExactly ==
    (IsExtract /\ ret.err = "nil")
        => \A i \in 1..Len(log) :
               (log[i].typ = "reg" /\ LastAt(i))
                   => /\ Stat(FS, log[i].target) = "file"
                      /\ files[log[i].target] = Entries[i].data
                      /\ Size(files[log[i].target]) = log[i].size

\* the three outcomes of the size checks for a regular entry
SizeClasses == {"nil", "ErrFileTooLarge", "ErrIncompleteWrite"}

\* what Untar with the MaxSize of the last call does for the entries of
\* /m.tar.gz on the filesystem the last call found
UntarLog == Untar(pre, Path(MTarGz), DestDir, call.max, NoFault).log

\* C28: size classification independent of the format.  When Unzip has
\* run, without an injected fault, on /m.zip while /m.tar.gz held the same
\* entries, every regular entry that Unzip and Untar with the same MaxSize
\* both get to, and that each of them extracts or refuses with
\* ErrFileTooLarge or ErrIncompleteWrite, has the same outcome with both.
SameClassification ==
    (/\ ret.op = "Unzip"
     /\ call.raw = MZip
     /\ call.fault = NoFault
     /\ pre.files[MZip].entries = pre.files[MTarGz].entries)
        => \A i \in 1..Min(Len(log), Len(UntarLog)) :
               (/\ log[i].typ = "reg"
                /\ log[i].err \in SizeClasses
                /\ UntarLog[i].err \in SizeClasses)
                   => log[i].err = UntarLog[i].err

\* the path of the archive of the last compression
ArchivePath ==
    LET ext == IF ret.op = "ZipDir" THEN ZipExt ELSE TarGzExt
    IN  Join(Parent(Path(call.raw)),
             <<IF HasSuffix(call.name, ext) THEN call.name
               ELSE call.name \o ext>>).absPath

\* the last compression got past Create for its archive
ArchiveCreated ==
    /\ Stat(pre, Source) = "dir"
    /\ call.fault.kind # "create"
    /\ CanCreate(pre, ArchivePath)

\* C29: a failed compression leaves nothing behind.  After ZipDir or
\* TarGzDir returned an error once the archive file was created, there is
\* no file at the path of the archive.
NothingLeftBehind ==
    (IsCompress /\ ret.err # "nil" /\ ArchiveCreated)
        => Stat(FS, ArchivePath) = "none"

\* entry i of the last extraction is of a type other than directory and
\* regular file
OtherType(i) == log[i].typ \notin {"reg", "dir"}

\* no other entry of the last extraction went to the target of entry i
\* or below it
AloneAt(i) ==
    \A j \in 1..Len(log) : j = i \/ ~Inside(log[j].target, log[i].target)

\* C30: Untar creates only directories and regular files.  For an entry
\* of another type Untar makes no filesystem call and no error, what is
\* at its target is what was there before unless another entry went
\* there, and the entry after it, if the archive has one, is handled.
OnlyDirsAndFiles ==
    ret.op = "Untar"
        => \A i \in 1..Len(log) :
               OtherType(i)
                   => /\ log[i].calls = <<>>
                      /\ log[i].written = 0
                      /\ log[i].err = "nil"
                      /\ AloneAt(i) => Stat(FS, log[i].target) = Stat(pre, log[i].target)
                      /\ i < Len(Entries) => Len(log) > i

\* C30, reached: Untar went past a symbolic link, made nothing for it,
\* extracted the two regular files after it and returned without error
OnlyDirsAndFilesReached ==
    /\ ret.op = "Untar"
    /\ ret.err = "nil"
    /\ Len(log) = 3
    /\ OtherType(1)
    /\ Stat(FS, log[1].target) = "none"
    /\ log[2].typ = "reg" /\ Stat(FS, log[2].target) = "file"
    /\ log[3].typ = "reg" /\ Stat(FS, log[3].target) = "file"

============================================================================
